---- MODULE Spec2Model ----
(***************************************************************************)
(* A model of the puzzle solvers of the repository: Day 1 (zero crossings  *)
(* on a ring), Day 2 (repeated digit patterns), Day 3 (the largest two     *)
(* and twelve digits of a line, in their order), Day 4 (removable grid     *)
(* cells) and Day 5 (range merging and membership).  Every solver runs on  *)
(* its own; each has its own specification over its own variables, the     *)
(* other solvers' variables resting at their idle values.                  *)
(***************************************************************************)
EXTENDS Integers, Sequences, FiniteSets, TLC

VARIABLES
    \* Day 1: one call of calculate_zero_crossings and its returned pair
    pc1, position, direction, distance, zero_crossings, new_position,
    \* Day 1, process_commands: the text read from the file, the number of
    \* its lines the loop has gone through, and the running total
    content, line_no, total_crossings,
    \* Day 2: one call of is_invalid_id and the boolean it returns
    pc2, id_num, invalid,
    \* Day 2, main: the text of the file, the ranges read_file returns, the
    \* number of them the loop has gone through, what sum_invalid_ids
    \* returned for the last of these, and the running total
    file_content, id_ranges, range_no, total_sum, total_duplicate_sequences,
    \* Day 3: the lines given to a solver, the total a part-1 solver returns,
    \* and the pair solve_combined_optimized returns (part2_total also holds
    \* the result of solve_part2 and of solve_part2_optimized)
    pc3, banks, total_output_joltage, part1_total, part2_total,
    \* Day 4: the grid (mutated in place by solve_part2), the grid as it was
    \* on entry, the cell of a removable_at_symbols call, the value returned,
    \* the locals of solve_part2's while loop, the passes run and the calls
    \* of solve_part2 made on the grid
    pc4, data, data_on_entry, cell_i, cell_j, result, pass_result, passes, calls,
    \* Day 4, solve_part2_tracking_at_cells and solve_part2_differential:
    \* the set of '@' positions and the set of cells to check in the next pass
    at_positions, cells_to_check,
    \* Day 5: the lines given to preprocess_input, the ranges and IDs it
    \* returns (the arguments of solve_part1), and solve_part1's result
    pc5, lines, ranges, ids_to_check, part1_result

vars1 == <<pc1, position, direction, distance, zero_crossings, new_position,
          content, line_no, total_crossings>>
vars2 == <<pc2, id_num, invalid,
          file_content, id_ranges, range_no, total_sum, total_duplicate_sequences>>
vars3 == <<pc3, banks, total_output_joltage, part1_total, part2_total>>

vars4 == <<pc4, data, data_on_entry, cell_i, cell_j, result, pass_result, passes, calls,
          at_positions, cells_to_check>>

vars5 == <<pc5, lines, ranges, ids_to_check, part1_result>>

vars == <<vars1, vars2, vars3, vars4, vars5>>

(***************************************************************************)
(* The values a solver's variables rest at while another solver runs.      *)
(***************************************************************************)

START_POSITION == 50
POSITION_RANGE == 100

Day1Idle ==
    /\ pc1 = "idle"
    /\ position = START_POSITION
    /\ direction = 1
    /\ distance = 0
    /\ zero_crossings = 0
    /\ new_position = START_POSITION
    /\ content = <<>>
    /\ line_no = 0
    /\ total_crossings = 0

Day2Idle ==
    /\ pc2 = "idle"
    /\ id_num = 0
    /\ invalid = FALSE
    /\ file_content = <<>>
    /\ id_ranges = <<>>
    /\ range_no = 0
    /\ total_sum = 0
    /\ total_duplicate_sequences = 0

Day3Idle ==
    /\ pc3 = "idle"
    /\ banks = <<>>
    /\ total_output_joltage = 0
    /\ part1_total = 0
    /\ part2_total = <<>>

Day4Idle ==
    /\ pc4 = "idle"
    /\ data = <<>>
    /\ data_on_entry = <<>>
    /\ cell_i = 0
    /\ cell_j = 0
    /\ result = 0
    /\ pass_result = 0
    /\ passes = 0
    /\ calls = 0
    /\ at_positions = {}
    /\ cells_to_check = {}

Day5Idle ==
    /\ pc5 = "idle"
    /\ lines = <<>>
    /\ ranges = <<>>
    /\ ids_to_check = <<>>
    /\ part1_result = 0

\* The one element of a one-element set.
Only(S) == CHOOSE e \in S : TRUE

\* The sequences over S of length at most n.
SeqsUpTo(S, n) == UNION { [1 .. k -> S] : k \in 0 .. n }

\* The decimal digit characters, by value.
DigitChars == <<"0", "1", "2", "3", "4", "5", "6", "7", "8", "9">>

\* str(n) of a non-negative integer: its decimal digits, most significant
\* first, no leading zero.
RECURSIVE str(_)
str(n) ==
    IF n < 10 THEN <<DigitChars[n + 1]>>
    ELSE Append(str(n \div 10), DigitChars[(n % 10) + 1])

\* A decimal digit character, and its value.
IsDigit(c) == \E d \in 1 .. 10 : DigitChars[d] = c
DigitValue(c) == (CHOOSE d \in 1 .. 10 : DigitChars[d] = c) - 1

\* int(chars) returns: a non-empty run of digits after an optional '-'
\* (of what int accepts, whitespace around, '+' and '_' among them, the
\* strings here hold nothing else); otherwise it raises ValueError.
IntParses(chars) ==
    LET digits == IF Len(chars) > 0 /\ chars[1] = "-" THEN Tail(chars) ELSE chars
    IN  /\ Len(digits) > 0
        /\ \A k \in 1 .. Len(digits) : IsDigit(digits[k])

RECURSIVE DigitsValue(_)
DigitsValue(digits) ==
    IF Len(digits) = 0 THEN 0
    ELSE 10 * DigitsValue(SubSeq(digits, 1, Len(digits) - 1))
         + DigitValue(digits[Len(digits)])

int(chars) ==
    IF chars[1] = "-" THEN 0 - DigitsValue(Tail(chars)) ELSE DigitsValue(chars)

\* sep in line.
Contains(line, sep) == \E k \in 1 .. Len(line) : line[k] = sep

\* line.split(sep).
RECURSIVE split(_, _)
split(line, sep) ==
    IF ~Contains(line, sep) THEN <<line>>
    ELSE LET k == CHOOSE k \in 1 .. Len(line) :
                      line[k] = sep /\ \A m \in 1 .. (k - 1) : line[m] # sep
         IN  <<SubSeq(line, 1, k - 1)>> \o split(SubSeq(line, k + 1, Len(line)), sep)

\* The whitespace characters of the inputs here, and chars.strip().
Whitespace == {" ", "\t", "\n"}
RECURSIVE strip(_)
strip(chars) ==
    IF chars = <<>> THEN <<>>
    ELSE IF chars[1] \in Whitespace THEN strip(Tail(chars))
    ELSE IF chars[Len(chars)] \in Whitespace THEN strip(SubSeq(chars, 1, Len(chars) - 1))
    ELSE chars

(***************************************************************************)
(* Day 1                                                                   *)
(***************************************************************************)

\* Largest distance of one command in the model: two full turns and more.
MaxDistance == 220

Directions == {1, -1}

\* The steps to the next 0 with the special case for position 0 left out.
DistanceToFirstZeroNoSpecialCase(p, dir) ==
    IF dir = 1 THEN POSITION_RANGE - p ELSE p

\* The steps from p to the next 0 in direction dir: a full turn from 0.
DistanceToFirstZero(p, dir) ==
    IF dir = 1
    THEN (IF p = 0 THEN POSITION_RANGE ELSE POSITION_RANGE - p)
    ELSE (IF p = 0 THEN POSITION_RANGE ELSE p)

\* The closed form with the new position left unwrapped.
calculate_zero_crossings_unwrapped(p, dir, dist) ==
    LET distance_to_first_zero == DistanceToFirstZero(p, dir)
        remaining_distance == dist - distance_to_first_zero
        crossings == IF dist >= distance_to_first_zero
                     THEN 1 + (remaining_distance \div POSITION_RANGE)
                     ELSE 0
    IN  [zero_crossings |-> crossings, new_position |-> p + dir * dist]

\* The closed form counting the first crossing only.
calculate_zero_crossings_once(p, dir, dist) ==
    [zero_crossings |-> IF dist >= DistanceToFirstZero(p, dir) THEN 1 ELSE 0,
     new_position |-> (p + dir * dist) % POSITION_RANGE]

\* The closed form: the pair (zero_crossings, new_position).
calculate_zero_crossings(p, dir, dist) ==
    LET distance_to_first_zero == DistanceToFirstZero(p, dir)
        remaining_distance == dist - distance_to_first_zero
        crossings == IF dist >= distance_to_first_zero
                     THEN 1 + (remaining_distance \div POSITION_RANGE)
                     ELSE 0
    IN  [zero_crossings |-> crossings,
         new_position |-> (p + dir * dist) % POSITION_RANGE]

\* One unit step of the step-by-step walk, with its wrapping.
NaiveStep(current_pos, dir) ==
    LET moved == current_pos + dir
    IN  IF moved < 0 THEN POSITION_RANGE - 1
        ELSE IF moved >= POSITION_RANGE THEN 0
        ELSE moved

\* The loop of the walk over steps_left unit steps, from current_pos with
\* crossings counted so far.  A run of steps is the run of its first half
\* followed, from where that ends, by the run of its second half (mid is
\* bound through a set so that it is a value when the second half starts).
RECURSIVE NaiveLoop(_, _, _, _)
NaiveLoop(current_pos, dir, steps_left, crossings) ==
    IF steps_left = 0
    THEN [zero_crossings |-> crossings, new_position |-> current_pos]
    ELSE IF steps_left = 1
    THEN LET next_pos == NaiveStep(current_pos, dir)
         IN  [zero_crossings |-> IF next_pos = 0 THEN crossings + 1 ELSE crossings,
              new_position |-> next_pos]
    ELSE LET first_half == steps_left \div 2
         IN  Only({ NaiveLoop(mid.new_position, dir, steps_left - first_half,
                              mid.zero_crossings) :
                    mid \in {NaiveLoop(current_pos, dir, first_half, crossings)} })

\* The step-by-step walk of the benchmark: dist unit steps from p.
calculate_zero_crossings_naive(p, dir, dist) == NaiveLoop(p, dir, dist, 0)

\* A call of calculate_zero_crossings with any arguments of its domain.
InitDay1 ==
    /\ pc1 = "call"
    /\ position \in 0 .. (POSITION_RANGE - 1)
    /\ direction \in Directions
    /\ distance \in 0 .. MaxDistance
    /\ zero_crossings = 0
    /\ new_position = position
    /\ content = <<>>
    /\ line_no = 0
    /\ total_crossings = 0
    /\ Day3Idle
    /\ Day2Idle
    /\ Day4Idle
    /\ Day5Idle

\* The call returns its pair.
CalculateZeroCrossings ==
    /\ pc1 = "call"
    /\ LET ret == calculate_zero_crossings(position, direction, distance)
       IN  /\ zero_crossings' = ret.zero_crossings
           /\ new_position' = ret.new_position
    /\ pc1' = "return"
    /\ UNCHANGED <<position, direction, distance, content, line_no, total_crossings,
                 vars2, vars3, vars4, vars5>>

\* The caller carries the position reached into the next command.
NextCommand ==
    /\ pc1 = "return"
    /\ pc1' = "call"
    /\ position' = new_position
    /\ direction' \in Directions
    /\ distance' \in 0 .. MaxDistance
    /\ UNCHANGED <<zero_crossings, new_position, content, line_no, total_crossings,
                 vars2, vars3, vars4, vars5>>

NextDay1 == CalculateZeroCrossings \/ NextCommand

SpecDay1 == InitDay1 /\ [][NextDay1]_vars

\* C1: the closed form returns the same pair (zero_crossings, new_position)
\* as walking the distance one unit step at a time around the ring 0..99 and
\* counting each step that lands on 0; the starting position is not counted,
\* so a move of n steps from 0 counts n // 100 crossings.
C1_ClosedFormIsStepwise ==
    pc1 = "return" =>
        /\ [zero_crossings |-> zero_crossings, new_position |-> new_position]
               = calculate_zero_crossings_naive(position, direction, distance)
        /\ (position = 0 => zero_crossings = distance \div POSITION_RANGE)

\* A move to the left from 0 of exactly two turns: two crossings, back on 0.
C1_Witness ==
    /\ pc1 = "return"
    /\ position = 0
    /\ direction = -1
    /\ distance = 2 * POSITION_RANGE
    /\ zero_crossings = 2
    /\ new_position = 0

\* C13: after any sequence of commands with distances >= 0 from a position
\* in 0..99, the position calculate_zero_crossings returns, and the position
\* carried into the next command, is an integer p with 0 <= p < 100.
C13_PositionStaysOnRing ==
    /\ position \in 0 .. (POSITION_RANGE - 1)
    /\ pc1 = "return" => new_position \in 0 .. (POSITION_RANGE - 1)

\* A move to the left that runs more than a turn below 0 has returned.
C13_Witness ==
    /\ pc1 = "return"
    /\ direction = -1
    /\ position - distance < 0 - POSITION_RANGE
    /\ zero_crossings = 2
    /\ new_position = POSITION_RANGE - 1

\* The pair returned by a move of a steps followed, from where it ends, by
\* a move of b steps in the same direction: crossings added up.
SplitMove(p, dir, a, b) ==
    LET first == calculate_zero_crossings(p, dir, a)
        second == calculate_zero_crossings(first.new_position, dir, b)
    IN  [zero_crossings |-> first.zero_crossings + second.zero_crossings,
         new_position |-> second.new_position]

\* C14: for every position, direction and distances a, b >= 0, a move of a
\* followed by a move of b in the same direction gives the same total of
\* crossings and the same final position as one move of a + b.
C14_SplitMoveChangesNothing ==
    pc1 = "return" =>
        \A a \in 0 .. distance :
            SplitMove(position, direction, a, distance - a)
                = [zero_crossings |-> zero_crossings, new_position |-> new_position]

\* A move of two turns, not from 0, that splits into two moves each with a
\* crossing of its own.
C14_Witness ==
    /\ pc1 = "return"
    /\ position # 0
    /\ distance = 2 * POSITION_RANGE
    /\ zero_crossings = 2
    /\ \E a \in 1 .. (distance - 1) :
          /\ calculate_zero_crossings(position, direction, a).zero_crossings = 1
          /\ SplitMove(position, direction, a, distance - a).zero_crossings = 2

(***************************************************************************)
(* Day 1: process_commands                                                 *)
(***************************************************************************)

\* A file of commands has at most MaxCommands lines.
MaxCommands == 3

\* content.splitlines(): the runs between newlines, no empty last line.
RECURSIVE splitlines(_)
splitlines(chars) ==
    IF chars = <<>> THEN <<>>
    ELSE IF \A k \in 1 .. Len(chars) : chars[k] # "\n" THEN <<chars>>
    ELSE LET k == CHOOSE k \in 1 .. Len(chars) :
                      chars[k] = "\n" /\ \A m \in 1 .. (k - 1) : chars[m] # "\n"
         IN  <<SubSeq(chars, 1, k - 1)>> \o splitlines(SubSeq(chars, k + 1, Len(chars)))

\* not line.strip(): the line holds whitespace only.
IsBlank(line) == strip(line) = <<>>

\* parse_command(line) of a non-blank line: any first character but 'R' is
\* taken for left; int(line[1:]) raises ValueError or gives the distance.
parse_command(line) ==
    [raised |-> ~IntParses(Tail(line)),
     direction |-> IF line[1] = "R" THEN 1 ELSE -1,
     distance |-> IF IntParses(Tail(line)) THEN int(Tail(line)) ELSE 0]

\* The loop body with the position reached not carried into the next
\* command: every command starts from START_POSITION.
ProcessLineFromStart(st, line) ==
    IF IsBlank(line) THEN st
    ELSE LET cmd == parse_command(line)
             ret == calculate_zero_crossings(START_POSITION, cmd.direction, cmd.distance)
         IN  IF cmd.raised THEN [st EXCEPT !.raised = TRUE]
             ELSE [st EXCEPT !.position = ret.new_position,
                             !.total_crossings = @ + ret.zero_crossings,
                             !.direction = cmd.direction,
                             !.distance = cmd.distance,
                             !.crossings = ret.zero_crossings]

\* The body of the loop over the lines; st holds position, total_crossings,
\* the locals direction, distance and crossings, and raised once
\* parse_command has raised ValueError.
ProcessLine(st, line) ==
    IF IsBlank(line) THEN st
    ELSE LET cmd == parse_command(line)
             ret == calculate_zero_crossings(st.position, cmd.direction, cmd.distance)
         IN  IF cmd.raised THEN [st EXCEPT !.raised = TRUE]
             ELSE [st EXCEPT !.position = ret.new_position,
                             !.total_crossings = @ + ret.zero_crossings,
                             !.direction = cmd.direction,
                             !.distance = cmd.distance,
                             !.crossings = ret.zero_crossings]

\* The lines of the files: commands over 0, 1, and one to three half
\* turns, blank lines, and lines that are not a letter R or L followed by a
\* decimal distance.
FileDistances == {0, 1} \cup { k * (POSITION_RANGE \div 2) : k \in 1 .. 3 }
CommandLines == { <<d>> \o str(n) : d \in {"R", "L"}, n \in FileDistances }
BlankLines == { <<>>, <<" ">>, <<" ", "\t">> }
OtherLines ==
    { <<"X", "1", "0">>, <<"r", "6", "0">>, <<"6", "0">>, <<"R">>, <<"L", "x">>,
      <<"R", "-", "6", "0">>, <<" ", "R", "1">> }

\* The text of a file from its lines, with or without a last newline.
RECURSIVE JoinLines(_, _)
JoinLines(ls, last_newline) ==
    IF ls = <<>> THEN <<>>
    ELSE IF Len(ls) = 1 THEN ls[1] \o (IF last_newline THEN <<"\n">> ELSE <<>>)
    ELSE ls[1] \o <<"\n">> \o JoinLines(Tail(ls), last_newline)

\* Files of commands only; files of two lines of any kind, or fewer; files
\* with a blank line before, between or after two commands.
ContentsToTry ==
    { JoinLines(ls, FALSE) : ls \in SeqsUpTo(CommandLines, MaxCommands) }
    \cup { JoinLines(ls, nl) :
             ls \in SeqsUpTo(CommandLines \cup BlankLines \cup OtherLines, 2),
             nl \in BOOLEAN }
    \cup { JoinLines(<<a, b, c>>, TRUE) :
             a \in CommandLines \cup BlankLines, b \in CommandLines \cup BlankLines,
             c \in CommandLines \cup BlankLines }

\* process_commands has read the file and set total_crossings to 0 and
\* position to START_POSITION.
InitProcessCommands ==
    /\ pc1 = "loop"
    /\ content \in ContentsToTry
    /\ line_no = 0
    /\ total_crossings = 0
    /\ position = START_POSITION
    /\ direction = 1
    /\ distance = 0
    /\ zero_crossings = 0
    /\ new_position = START_POSITION
    /\ Day3Idle
    /\ Day2Idle
    /\ Day4Idle
    /\ Day5Idle

\* One turn of the for loop: the next line is skipped, or applied, or
\* parse_command raises ValueError out of process_commands.
ProcessNextLine ==
    /\ pc1 = "loop"
    /\ line_no < Len(splitlines(content))
    /\ LET st == ProcessLine([position |-> position,
                              total_crossings |-> total_crossings,
                              direction |-> direction,
                              distance |-> distance,
                              crossings |-> zero_crossings,
                              raised |-> FALSE],
                             splitlines(content)[line_no + 1])
       IN  /\ pc1' = IF st.raised THEN "raised_ValueError" ELSE "loop"
           /\ position' = st.position
           /\ new_position' = st.position
           /\ total_crossings' = st.total_crossings
           /\ direction' = st.direction
           /\ distance' = st.distance
           /\ zero_crossings' = st.crossings
    /\ line_no' = line_no + 1
    /\ UNCHANGED <<content, vars2, vars3, vars4, vars5>>

\* The lines have run out: process_commands returns total_crossings.
ReturnTotalCrossings ==
    /\ pc1 = "loop"
    /\ line_no = Len(splitlines(content))
    /\ pc1' = "returned"
    /\ UNCHANGED <<position, direction, distance, zero_crossings, new_position,
                   content, line_no, total_crossings, vars2, vars3, vars4, vars5>>

NextProcessCommands == ProcessNextLine \/ ReturnTotalCrossings

SpecProcessCommands == InitProcessCommands /\ [][NextProcessCommands]_vars

\* The non-blank lines among the lines the loop has gone through.
NonBlank(line) == ~IsBlank(line)
CommandsDone == SelectSeq(SubSeq(splitlines(content), 1, line_no), NonBlank)

\* The position after the first k of the commands cmds, from START_POSITION.
RECURSIVE PositionAfter(_, _)
PositionAfter(cmds, k) ==
    IF k = 0 THEN START_POSITION
    ELSE calculate_zero_crossings(PositionAfter(cmds, k - 1),
                                  parse_command(cmds[k]).direction,
                                  parse_command(cmds[k]).distance).new_position

\* The crossings counted by the k-th of the commands cmds.
CrossingsOf(cmds, k) ==
    calculate_zero_crossings(PositionAfter(cmds, k - 1),
                             parse_command(cmds[k]).direction,
                             parse_command(cmds[k]).distance).zero_crossings

RECURSIVE SumOfCrossings(_, _)
SumOfCrossings(cmds, k) ==
    IF k = 0 THEN 0 ELSE SumOfCrossings(cmds, k - 1) + CrossingsOf(cmds, k)

\* C12: process_commands starts at position 50 and applies the non-blank
\* lines in file order, each from the position the one before it reached;
\* its total is the sum of the crossings of each; blank lines change neither
\* position nor total; it returns the total over all lines of the file, 0 for
\* an empty file.
C12_TotalIsSumOverNonBlankLines ==
    pc1 \in {"loop", "returned"} =>
        /\ position = PositionAfter(CommandsDone, Len(CommandsDone))
        /\ total_crossings = SumOfCrossings(CommandsDone, Len(CommandsDone))
        /\ (pc1 = "returned" => line_no = Len(splitlines(content)))
        /\ (pc1 = "returned" /\ content = <<>> => total_crossings = 0)

\* A file of a command, a line of whitespace and a command has returned:
\* two crossings in all, the second command having started from where the
\* first ended.
C12_Witness ==
    /\ pc1 = "returned"
    /\ Len(splitlines(content)) = 3
    /\ splitlines(content)[2] \in BlankLines \ {<<>>}
    /\ Len(CommandsDone) = 2
    /\ PositionAfter(CommandsDone, 1) # START_POSITION
    /\ CrossingsOf(CommandsDone, 2) = 1
    /\ total_crossings = 2

\* A valid command: the letter R or L followed by a decimal distance.
IsValidCommand(line) ==
    /\ Len(line) >= 2
    /\ line[1] \in {"R", "L"}
    /\ \A k \in 2 .. Len(line) : IsDigit(line[k])

\* C15: process_commands raises ValueError, and returns no total, whenever
\* a non-blank line of the file is not a valid command: the loop never gets
\* past such a line, and a call that returns has met none.
C15_InvalidLineRaisesValueError ==
    pc1 \in {"loop", "returned"} =>
        \A k \in 1 .. line_no :
            LET line == splitlines(content)[k]
            IN  IsBlank(line) \/ IsValidCommand(line)

(***************************************************************************)
(* Day 2                                                                   *)
(***************************************************************************)

\* Every ID up to MaxId is tried, and every longer ID written with the
\* digits 1, 2, 3 only, up to MaxDigits digits.
MaxId == 1500
MaxDigits == 8

RECURSIVE FromDigits(_)
FromDigits(ds) ==
    IF Len(ds) = 0 THEN 0
    ELSE 10 * FromDigits(SubSeq(ds, 1, Len(ds) - 1)) + ds[Len(ds)]

IdsToTry ==
    (0 .. MaxId) \cup
    { FromDigits(ds) : ds \in UNION { [1 .. n -> {1, 2, 3}] : n \in 1 .. MaxDigits } }

\* pattern * repetitions: the pattern written repetitions times.
RECURSIVE Repeat(_, _)
Repeat(pattern, repetitions) ==
    IF repetitions <= 0 THEN <<>>
    ELSE pattern \o Repeat(pattern, repetitions - 1)

\* The pattern lengths of a loop that stops one short of half the length.
PatternLengthsOneShort(length) == 1 .. ((length \div 2) - 1)

\* range(1, length // 2 + 1): the pattern lengths tried.
PatternLengths(length) == 1 .. (length \div 2)

\* True when the loop over the pattern lengths returns True at some length.
is_invalid_id(n) ==
    LET id_str == str(n)
        length == Len(id_str)
    IN  \E pattern_len \in PatternLengths(length) :
            /\ length % pattern_len = 0
            /\ (length \div pattern_len) >= 2
            /\ Repeat(SubSeq(id_str, 1, pattern_len), length \div pattern_len) = id_str

InitDay2 ==
    /\ Day3Idle
    /\ Day1Idle
    /\ Day4Idle
    /\ Day5Idle
    /\ pc2 = "call"
    /\ id_num \in IdsToTry
    /\ invalid = FALSE
    /\ file_content = <<>>
    /\ id_ranges = <<>>
    /\ range_no = 0
    /\ total_sum = 0
    /\ total_duplicate_sequences = 0

IsInvalidId ==
    /\ pc2 = "call"
    /\ invalid' = is_invalid_id(id_num)
    /\ pc2' = "return"
    /\ UNCHANGED <<id_num, file_content, id_ranges, range_no, total_sum,
                   total_duplicate_sequences, vars1, vars3, vars4, vars5>>

NextDay2 == IsInvalidId

SpecDay2 == InitDay2 /\ [][NextDay2]_vars

\* The digit string s is some substring of itself, s[a..b], written k >= 2
\* times over.
IsRepeatedSubstring(s) ==
    \E a \in 1 .. Len(s) : \E b \in a .. Len(s) : \E k \in 2 .. Len(s) :
        /\ Len(s) = k * (b - a + 1)
        /\ \A i \in 1 .. Len(s) : s[i] = s[a + ((i - 1) % (b - a + 1))]

\* C2: is_invalid_id(n) is True exactly when the decimal digit string of n
\* is some substring repeated an integer number of times, at least twice,
\* and it is False for every single-digit n.
C2_InvalidIffRepeated ==
    pc2 = "return" =>
        /\ invalid = IsRepeatedSubstring(str(id_num))
        /\ (id_num < 10 => invalid = FALSE)

\* 123123 is found invalid: a three-digit pattern written twice.
C2_Witness ==
    /\ pc2 = "return"
    /\ id_num = 123123
    /\ invalid = TRUE

(***************************************************************************)
(* Day 2: read_file, sum_invalid_ids, main                                 *)
(***************************************************************************)

\* Single ranges have start and end up to MaxEnd, or one ID up to MaxId for
\* both; a file of several ranges has at most MaxRangesInFile of them, with
\* start and end among 0, 11 and 22.
MaxEnd == 40
MaxRangesInFile == 3

\* range.split("-", 1): split at the first '-' only.
split_once(chars, sep) ==
    IF ~Contains(chars, sep) THEN <<chars>>
    ELSE LET k == CHOOSE k \in 1 .. Len(chars) :
                      chars[k] = sep /\ \A m \in 1 .. (k - 1) : chars[m] # sep
         IN  <<SubSeq(chars, 1, k - 1), SubSeq(chars, k + 1, Len(chars))>>

\* The body of the loop over the parts between commas: an empty part is
\* skipped; a part that does not split in two, or whose start or end int()
\* rejects, raises ValueError.
ReadRange(st, part) ==
    LET range == strip(part)
        halves == split_once(range, "-")
    IN  IF st.raised \/ range = <<>> THEN st
        ELSE IF Len(halves) # 2 THEN [st EXCEPT !.raised = TRUE]
        ELSE IF ~IntParses(strip(halves[1])) \/ ~IntParses(strip(halves[2]))
             THEN [st EXCEPT !.raised = TRUE]
        ELSE [st EXCEPT !.id_ranges =
                 Append(@, <<int(strip(halves[1])), int(strip(halves[2]))>>)]

RECURSIVE ReadRanges(_, _, _)
ReadRanges(parts, k, st) ==
    IF k > Len(parts) THEN st
    ELSE Only({ ReadRanges(parts, k + 1, nst) : nst \in {ReadRange(st, parts[k])} })

\* read_file on a file with the text chars: the ranges, or raised.
read_file(chars) ==
    IF strip(chars) = <<>> THEN [raised |-> FALSE, id_ranges |-> <<>>]
    ELSE ReadRanges(split(strip(chars), ","), 1, [raised |-> FALSE, id_ranges |-> <<>>])

\* The loop over range(lo, hi + 1), total_sum being the sum so far.  The
\* run over lo..hi is the run over its first half followed by the run over
\* its second half (t is bound through a set so that it is a value when
\* the second half starts).
RECURSIVE SumLoop(_, _, _)
SumLoop(lo, hi, sum_so_far) ==
    IF lo > hi THEN sum_so_far
    ELSE IF lo = hi THEN (IF is_invalid_id(lo) THEN sum_so_far + lo ELSE sum_so_far)
    ELSE LET mid == (lo + hi) \div 2
         IN  Only({ SumLoop(mid + 1, hi, t) : t \in {SumLoop(lo, mid, sum_so_far)} })

\* The sum over range(start, end): the end left out.
sum_invalid_ids_end_excluded(id_range) == SumLoop(id_range[1], id_range[2] - 1, 0)

\* sum_invalid_ids((start, end)): the loop over range(start, end + 1).
sum_invalid_ids(id_range) == SumLoop(id_range[1], id_range[2], 0)

\* The text of a file: its ranges "start-end" with commas between.
RangeText(r) == str(r[1]) \o <<"-">> \o str(r[2])
RECURSIVE FileText(_)
FileText(rs) ==
    IF rs = <<>> THEN <<>>
    ELSE IF Len(rs) = 1 THEN RangeText(rs[1])
    ELSE RangeText(rs[1]) \o <<",">> \o FileText(Tail(rs))

\* Files with whitespace, empty parts, or parts that are not ranges.
OtherFileContents ==
    { <<" ", "\n">>,
      FileText(<< <<0, MaxId>> >>) \o <<"\n">>,
      <<"1", "1", "-", "2", "2", ",", ",", " ", "2", "2", "-", "3", "3", "\n">>,
      <<" ", "9", " ", "-", " ", "1", "2", " ", ",", "1", "1", "-", "1", "1">>,
      <<"1", "1">>,
      <<"1", "1", "-", "2", "2", ",", "x", "-", "3">>,
      <<"2", "2", "-", "1", "1", "-", "5">> }

Elevens == {0, 11, 22}

FileContentsToTry ==
    { FileText(<<r>>) : r \in (0 .. MaxEnd) \X (0 .. MaxEnd) }
    \cup { FileText(rs) : rs \in SeqsUpTo(Elevens \X Elevens, MaxRangesInFile) }
    \cup { FileText(<< <<n, n>> >>) : n \in 0 .. MaxId }
    \cup OtherFileContents

\* main is entered with the text of the file named on the command line.
InitDay2Main ==
    /\ Day3Idle
    /\ Day1Idle
    /\ Day4Idle
    /\ Day5Idle
    /\ pc2 = "main"
    /\ id_num = 0
    /\ invalid = FALSE
    /\ file_content \in FileContentsToTry
    /\ id_ranges = <<>>
    /\ range_no = 0
    /\ total_sum = 0
    /\ total_duplicate_sequences = 0

\* id_ranges = read_file(filename); an exception ends main with exit(1).
ReadFile ==
    /\ pc2 = "main"
    /\ LET ret == read_file(file_content)
       IN  /\ pc2' = IF ret.raised THEN "exit_1" ELSE "loop"
           /\ id_ranges' = ret.id_ranges
    /\ UNCHANGED <<id_num, invalid, file_content, range_no, total_sum,
                   total_duplicate_sequences, vars1, vars3, vars4, vars5>>

\* One turn of main's loop: the sum of the next range is added.
AddSumOfRange ==
    /\ pc2 = "loop"
    /\ range_no < Len(id_ranges)
    /\ range_no' = range_no + 1
    /\ total_sum' = sum_invalid_ids(id_ranges[range_no + 1])
    /\ total_duplicate_sequences' =
           total_duplicate_sequences + sum_invalid_ids(id_ranges[range_no + 1])
    /\ UNCHANGED <<pc2, id_num, invalid, file_content, id_ranges, vars1, vars3, vars4, vars5>>

\* The ranges have run out: main prints the total.
PrintTotal ==
    /\ pc2 = "loop"
    /\ range_no = Len(id_ranges)
    /\ pc2' = "printed"
    /\ UNCHANGED <<id_num, invalid, file_content, id_ranges, range_no, total_sum,
                   total_duplicate_sequences, vars1, vars3, vars4, vars5>>

NextDay2Main == ReadFile \/ AddSumOfRange \/ PrintTotal

SpecDay2Main == InitDay2Main /\ [][NextDay2Main]_vars

\* The invalid IDs n with start <= n <= end.
InvalidIdsIn(r) == { n \in r[1] .. r[2] : is_invalid_id(n) }

\* The sum of w[n] * n over the n of a finite set S of integers.
RECURSIVE WeightedSum(_, _)
WeightedSum(S, w) ==
    IF S = {} THEN 0
    ELSE LET n == CHOOSE n \in S : TRUE
         IN  w[n] * n + WeightedSum(S \ {n}, w)

\* The invalid IDs of the ranges gone through, and in how many of these
\* ranges each lies.
InvalidIdsDone == UNION { InvalidIdsIn(id_ranges[k]) : k \in 1 .. range_no }
TimesListed == [n \in InvalidIdsDone |->
                   Cardinality({ k \in 1 .. range_no : n \in InvalidIdsIn(id_ranges[k]) })]

\* C16: sum_invalid_ids((start, end)) is the sum of the invalid IDs n with
\* start <= n <= end, 0 when start > end; the total main prints is the sum
\* of these sums over the ranges of the file, an invalid ID lying in k of
\* the ranges counting k times.
C16_TotalIsSumOfRangeSums ==
    pc2 \in {"loop", "printed"} =>
        /\ (range_no > 0 =>
              LET r == id_ranges[range_no]
              IN  /\ total_sum = WeightedSum(InvalidIdsIn(r), [n \in InvalidIdsIn(r) |-> 1])
                  /\ (r[1] > r[2] => total_sum = 0))
        /\ total_duplicate_sequences = WeightedSum(InvalidIdsDone, TimesListed)
        /\ (pc2 = "printed" => range_no = Len(id_ranges))

\* Three ranges that all hold 11 and 22, the last ending on 22: 11 and 22
\* are counted three times each.
C16_Witness ==
    /\ pc2 = "printed"
    /\ range_no = 3
    /\ InvalidIdsDone = {11, 22}
    /\ \A n \in InvalidIdsDone : TimesListed[n] = 3
    /\ id_ranges[3][2] = 22
    /\ total_sum = 33
    /\ total_duplicate_sequences = 99

(***************************************************************************)
(* Day 3                                                                   *)
(***************************************************************************)

\* A single line has at most MaxLineLen characters; a list of several
\* lines has at most MaxLines of them, of two digits each.
MaxLineLen == 4
MaxLines == 3

\* Two characters outside ASCII for which char.isdigit() holds, named by
\* their code points: ARABIC-INDIC DIGIT NINE, which int() reads as 9, and
\* SUPERSCRIPT TWO, which int() rejects with ValueError.
ArabicIndicNine == "U+0669"
SuperscriptTwo == "U+00B2"

\* The characters of the lines: digits, and a character that is no digit.
LineChars == {"0", "3", "9", "a", ArabicIndicNine, SuperscriptTwo}

\* The lines of at most n characters.
LinesUpTo(n) == SeqsUpTo(LineChars, n)

DataToTry ==
    { <<line>> : line \in LinesUpTo(MaxLineLen) }
    \cup SeqsUpTo({ line \in LinesUpTo(2) : Len(line) = 2 /\ \A k \in 1 .. 2 : IsDigit(line[k]) },
                  MaxLines)
    \cup { << <<"9", "3">>, line >> : line \in LinesUpTo(2) }

\* char.isdigit(), and int(char) where int() accepts the character.
isdigit(c) == IsDigit(c) \/ c \in {ArabicIndicNine, SuperscriptTwo}
IntOfCharRaises(c) == c = SuperscriptTwo
IntOfChar(c) == IF c = ArabicIndicNine THEN 9 ELSE DigitValue(c)

\* The positions (counted from 0) of the digit characters of line, in
\* order, and the digit at a position.
DigitPositions(line) ==
    LET at == SelectSeq([k \in 1 .. Len(line) |-> k], LAMBDA k : isdigit(line[k]))
    IN  [n \in 1 .. Len(at) |-> at[n] - 1]
DigitAt(line, pos) == IntOfChar(line[pos + 1])

\* int(char) raises ValueError for one of the digit characters of line.
IntRaisesIn(line) ==
    \E k \in 1 .. Len(line) : isdigit(line[k]) /\ IntOfCharRaises(line[k])

\* max() of a non-empty sequence of integers.
MaxOf(seq) == CHOOSE m \in { seq[k] : k \in 1 .. Len(seq) } :
                  \A k \in 1 .. Len(seq) : seq[k] <= m

\* line.index(c): the position of the first occurrence of the character c,
\* which raises ValueError when there is none.
IndexRaises(line, c) == \A k \in 1 .. Len(line) : line[k] # c
Index(line, c) ==
    (CHOOSE k \in 1 .. Len(line) : line[k] = c /\ \A m \in 1 .. (k - 1) : line[m] # c) - 1

\* The body of solve_part1's loop: what the line adds to the total, or
\* raised when int(char), max(digits[:-1]) or line.index() raises.
Part1Line(line) ==
    LET positions == DigitPositions(line)
        digits == [n \in 1 .. Len(positions) |-> DigitAt(line, positions[n])]
    IN  IF IntRaisesIn(line) THEN [raised |-> TRUE, value |-> 0]
        ELSE IF Len(digits) = 0 THEN [raised |-> FALSE, value |-> 0]
        ELSE IF Len(digits) = 1 THEN [raised |-> TRUE, value |-> 0]
        ELSE LET max_value == MaxOf(SubSeq(digits, 1, Len(digits) - 1))
             IN  IF IndexRaises(line, str(max_value)[1])
                 THEN [raised |-> TRUE, value |-> 0]
                 ELSE LET max_position == Index(line, str(max_value)[1])
                          remaining_digits ==
                              SelectSeq(positions, LAMBDA pos : pos > max_position)
                      IN  IF Len(remaining_digits) = 0
                          THEN [raised |-> FALSE, value |-> 0]
                          ELSE LET second_max ==
                                       MaxOf([n \in 1 .. Len(remaining_digits) |->
                                                 DigitAt(line, remaining_digits[n])])
                               IN  [raised |-> FALSE,
                                    value |-> int(str(max_value) \o str(second_max))]

\* max(available_digits, key=lambda x: x[0]): the position of the first of
\* the largest digits among the positions given.
FirstMaxPosition(line, positions) ==
    positions[CHOOSE n \in 1 .. Len(positions) :
                  /\ \A m \in 1 .. Len(positions) :
                        DigitAt(line, positions[m]) <= DigitAt(line, positions[n])
                  /\ \A m \in 1 .. (n - 1) :
                        DigitAt(line, positions[m]) < DigitAt(line, positions[n])]

\* The body of solve_part1_optimized's loop: what the line adds, or raised
\* when int(char) raises or max() is given the empty list available_digits.
Part1OptimizedLine(line) ==
    LET digit_positions == DigitPositions(line)
        available_digits == SubSeq(digit_positions, 1, Len(digit_positions) - 1)
    IN  IF IntRaisesIn(line) \/ Len(available_digits) = 0
        THEN [raised |-> TRUE, value |-> 0]
        ELSE LET max_position == FirstMaxPosition(line, available_digits)
                 remaining_digits ==
                     SelectSeq(digit_positions, LAMBDA pos : pos > max_position)
             IN  IF Len(remaining_digits) = 0 THEN [raised |-> FALSE, value |-> 0]
                 ELSE [raised |-> FALSE,
                       value |-> DigitAt(line, max_position) * 10
                                 + MaxOf([n \in 1 .. Len(remaining_digits) |->
                                             DigitAt(line, remaining_digits[n])])]

\* The loops over the lines from the k-th on: the total, or raised at the
\* first line that raises.
RECURSIVE Part1Loop(_, _, _)
Part1Loop(lines_given, k, total) ==
    IF k > Len(lines_given) THEN [raised |-> FALSE, total |-> total]
    ELSE IF Part1Line(lines_given[k]).raised THEN [raised |-> TRUE, total |-> total]
    ELSE Part1Loop(lines_given, k + 1, total + Part1Line(lines_given[k]).value)

RECURSIVE Part1OptimizedLoop(_, _, _)
Part1OptimizedLoop(lines_given, k, total) ==
    IF k > Len(lines_given) THEN [raised |-> FALSE, total |-> total]
    ELSE IF Part1OptimizedLine(lines_given[k]).raised THEN [raised |-> TRUE, total |-> total]
    ELSE Part1OptimizedLoop(lines_given, k + 1,
                            total + Part1OptimizedLine(lines_given[k]).value)

day3_solve_part1(lines_given) == Part1Loop(lines_given, 1, 0)
day3_solve_part1_optimized(lines_given) == Part1OptimizedLoop(lines_given, 1, 0)

\* main has parsed the file into its lines.
InitDay3 ==
    /\ Day1Idle
    /\ Day2Idle
    /\ Day4Idle
    /\ Day5Idle
    /\ pc3 = "start"
    /\ banks \in DataToTry
    /\ total_output_joltage = 0
    /\ part1_total = 0
    /\ part2_total = <<>>

\* A call solve_part1(data).
Day3SolvePart1 ==
    /\ pc3 = "start"
    /\ LET ret == day3_solve_part1(banks)
       IN  /\ pc3' = IF ret.raised THEN "part1_raised_ValueError" ELSE "part1_returned"
           /\ total_output_joltage' = ret.total
    /\ UNCHANGED <<banks, part1_total, part2_total, vars1, vars2, vars4, vars5>>

\* A call solve_part1_optimized(data).
Day3SolvePart1Optimized ==
    /\ pc3 = "start"
    /\ LET ret == day3_solve_part1_optimized(banks)
       IN  /\ pc3' = IF ret.raised THEN "part1_optimized_raised_ValueError"
                     ELSE "part1_optimized_returned"
           /\ total_output_joltage' = ret.total
    /\ UNCHANGED <<banks, part1_total, part2_total, vars1, vars2, vars4, vars5>>

NextDay3 == Day3SolvePart1 \/ Day3SolvePart1Optimized

SpecDay3 == InitDay3 /\ [][NextDay3]_vars

\* Every line holds at least two digit characters.
TwoDigitsEach ==
    \A k \in 1 .. Len(banks) : Len(DigitPositions(banks[k])) >= 2

\* C20: on every list of lines holding at least two digit characters each,
\* solve_part1_optimized returns the total solve_part1 returns: when one of
\* the two has returned, the other one returns too, with the same total.
C20_Part1OptimizedAgrees ==
    TwoDigitsEach =>
        /\ pc3 = "part1_returned" =>
              /\ ~day3_solve_part1_optimized(banks).raised
              /\ total_output_joltage = day3_solve_part1_optimized(banks).total
        /\ pc3 = "part1_optimized_returned" =>
              /\ ~day3_solve_part1(banks).raised
              /\ total_output_joltage = day3_solve_part1(banks).total

\* A line of digits only: every character is one int() reads as a digit.
OnlyDigits(line) ==
    \A k \in 1 .. Len(line) : isdigit(line[k]) /\ ~IntOfCharRaises(line[k])

\* The largest 10 * d[i] + d[j] over the positions i < j of a line of digits.
LargestPair(line) ==
    LET in_order == { 10 * DigitAt(line, p[1]) + DigitAt(line, p[2]) :
                         p \in { q \in (0 .. (Len(line) - 1)) \X (0 .. (Len(line) - 1)) :
                                    q[1] < q[2] } }
    IN  CHOOSE n \in in_order : \A other \in in_order : other <= n

\* C23: for a line of digits only, two or more, what solve_part1 adds for
\* the line is the largest 10 * d[i] + d[j] of two positions i < j: called
\* on the line alone, solve_part1 returns that number.
C23_Part1AddsLargestPair ==
    (/\ pc3 \in {"part1_returned", "part1_raised_ValueError"}
     /\ Len(banks) = 1
     /\ Len(banks[1]) >= 2
     /\ OnlyDigits(banks[1])) =>
        /\ pc3 = "part1_returned"
        /\ total_output_joltage = LargestPair(banks[1])

\* It is so for the lines of the digits 0 to 9.
Part1AddsLargestPairOfAsciiDigits ==
    (/\ pc3 \in {"part1_returned", "part1_raised_ValueError"}
     /\ Len(banks) = 1
     /\ Len(banks[1]) >= 2
     /\ \A k \in 1 .. Len(banks[1]) : IsDigit(banks[1][k])) =>
        /\ pc3 = "part1_returned"
        /\ total_output_joltage = LargestPair(banks[1])

(***************************************************************************)
(* Day 3: part 2                                                           *)
(***************************************************************************)

\* The results of part 2 have twelve digits and more: a number is held as
\* the sequence of its decimal digits, the first of them not 0, and 0 as
\* the empty sequence.
RECURSIVE BigNormal(_)
BigNormal(digits) ==
    IF Len(digits) > 0 /\ digits[1] = 0 THEN BigNormal(Tail(digits)) ELSE digits

\* int(chars) of a non-empty string of digits.
BigInt(chars) == BigNormal([k \in 1 .. Len(chars) |-> DigitValue(chars[k])])

\* value * 10 + digit.
BigTimes10Plus(value, digit) == BigNormal(Append(value, digit))

\* a + b, from the k last digits on, carry being what these gave.
RECURSIVE BigAddFrom(_, _, _, _)
BigAddFrom(a, b, k, carry) ==
    IF k >= Len(a) /\ k >= Len(b)
    THEN IF carry = 0 THEN <<>> ELSE <<carry>>
    ELSE LET sum == (IF k < Len(a) THEN a[Len(a) - k] ELSE 0)
                    + (IF k < Len(b) THEN b[Len(b) - k] ELSE 0) + carry
         IN  Append(BigAddFrom(a, b, k + 1, sum \div 10), sum % 10)
BigAdd(a, b) == BigAddFrom(a, b, 0, 0)

\* line[start:stop] for start >= 0: a negative stop counts from the end of
\* the line, and both ends are cut to the line.
Slice(line, start, stop) ==
    LET stop_from_start == IF stop < 0 THEN stop + Len(line) ELSE stop
        last == IF stop_from_start > Len(line) THEN Len(line) ELSE stop_from_start
    IN  IF last <= start THEN <<>> ELSE SubSeq(line, start + 1, last)

\* One round of solve_part2's inner loop, for i, from the locals in st:
\* raised when int(char), max(digits) or substring.index() raises.
Part2Round(line, i, st) ==
    LET substring == Slice(line, st.last_index + 1, Len(line) - i)
        positions == DigitPositions(substring)
    IN  IF IntRaisesIn(substring) \/ Len(positions) = 0
        THEN [st EXCEPT !.raised = TRUE]
        ELSE LET max_value ==
                     MaxOf([n \in 1 .. Len(positions) |-> DigitAt(substring, positions[n])])
             IN  IF IndexRaises(substring, str(max_value)[1])
                 THEN [st EXCEPT !.raised = TRUE]
                 ELSE [raised |-> FALSE,
                       last_index |-> Index(substring, str(max_value)[1])
                                      + st.last_index + 1,
                       final_value |-> st.final_value \o str(max_value),
                       picked |-> Append(st.picked,
                                         Index(substring, str(max_value)[1])
                                         + st.last_index + 1)]

\* The rounds for i, i - 1, ..., 0.
RECURSIVE Part2Rounds(_, _, _)
Part2Rounds(line, i, st) ==
    IF i < 0 \/ st.raised THEN st
    ELSE Part2Rounds(line, i - 1, Only({ Part2Round(line, i, s) : s \in {st} }))

\* The body of solve_part2's loop over the lines: the rounds for i = 11 down
\* to 0; picked holds the values last_index took.
Part2Line(line) ==
    LET st == Part2Rounds(line, 11, [raised |-> FALSE, last_index |-> -1,
                                     final_value |-> <<>>, picked |-> <<>>])
    IN  [raised |-> st.raised,
         value |-> IF st.raised THEN <<>> ELSE BigInt(st.final_value),
         picked |-> st.picked]

RECURSIVE Day3Part2Loop(_, _, _)
Day3Part2Loop(lines_given, k, total) ==
    IF k > Len(lines_given) THEN [raised |-> FALSE, total |-> total]
    ELSE LET added == Only({ Part2Line(line) : line \in {lines_given[k]} })
         IN  IF added.raised THEN [raised |-> TRUE, total |-> total]
             ELSE Day3Part2Loop(lines_given, k + 1, BigAdd(total, added.value))

day3_solve_part2(lines_given) == Day3Part2Loop(lines_given, 1, <<>>)

\* One round of solve_part2_optimized's inner loop, for i: continue when
\* end_pos is not beyond the last digit taken, break when no digit lies
\* between the two.
Part2OptimizedRound(line, i, st) ==
    LET end_pos == Len(line) - i
        valid_digits ==
            SelectSeq(DigitPositions(line),
                      LAMBDA pos : st.last_index < pos /\ pos < end_pos)
    IN  IF end_pos <= st.last_index + 1 THEN st
        ELSE IF Len(valid_digits) = 0 THEN [st EXCEPT !.broke = TRUE]
        ELSE LET max_digit ==
                     MaxOf([n \in 1 .. Len(valid_digits) |-> DigitAt(line, valid_digits[n])])
             IN  [broke |-> FALSE,
                  last_index |-> FirstMaxPosition(line, valid_digits),
                  final_digits |-> Append(st.final_digits, max_digit)]

RECURSIVE Part2OptimizedRounds(_, _, _)
Part2OptimizedRounds(line, i, st) ==
    IF i < 0 \/ st.broke THEN st
    ELSE Part2OptimizedRounds(line, i - 1,
                              Only({ Part2OptimizedRound(line, i, s) : s \in {st} }))

\* final_value = final_value * 10 + digit over the digits from the k-th on.
RECURSIVE BigOfDigits(_, _, _)
BigOfDigits(final_digits, k, final_value) ==
    IF k > Len(final_digits) THEN final_value
    ELSE BigOfDigits(final_digits, k + 1, BigTimes10Plus(final_value, final_digits[k]))

\* The body of solve_part2_optimized's loop over the lines: raised when
\* int(char) raises; a line that gives no digit adds nothing.
Part2OptimizedLine(line) ==
    IF IntRaisesIn(line) THEN [raised |-> TRUE, value |-> <<>>]
    ELSE LET st == Part2OptimizedRounds(line, 11, [broke |-> FALSE, last_index |-> -1,
                                                   final_digits |-> <<>>])
         IN  [raised |-> FALSE, value |-> BigOfDigits(st.final_digits, 1, <<>>)]

RECURSIVE Part2OptimizedLoop(_, _, _)
Part2OptimizedLoop(lines_given, k, total) ==
    IF k > Len(lines_given) THEN [raised |-> FALSE, total |-> total]
    ELSE LET added == Only({ Part2OptimizedLine(line) : line \in {lines_given[k]} })
         IN  IF added.raised THEN [raised |-> TRUE, total |-> total]
             ELSE Part2OptimizedLoop(lines_given, k + 1, BigAdd(total, added.value))

day3_solve_part2_optimized(lines_given) == Part2OptimizedLoop(lines_given, 1, <<>>)

\* The lines of only the digits 1 and 9 have 12 to MaxBankLen characters.
MaxBankLen == 13

\* k characters "1".
Ones(k) == [n \in 1 .. k |-> "1"]

\* The lists of lines given to the part-2 solvers: one short line of any
\* characters; one line of the digits 1 and 9, of 12 characters or more; one
\* line of up to 11 characters "1" with other characters before and after;
\* several lines out of three.
Part2DataToTry ==
    { <<line>> : line \in LinesUpTo(MaxLineLen) \ {<<>>} }
    \cup { <<line>> : line \in UNION { [1 .. k -> {"1", "9"}] : k \in 12 .. MaxBankLen } }
    \cup { <<before \o Ones(k) \o after>> :
              before \in SeqsUpTo({"1", "9", "a", ArabicIndicNine}, 3) \ {<<>>},
              k \in 0 .. 11,
              after \in {<<>>, <<"a">>} }
    \cup SeqsUpTo({ [n \in 1 .. 12 |-> "9"], <<"3">> \o Ones(12), <<"1", "9">> }, MaxLines)

\* main has parsed the file into its lines.
InitDay3Part2 ==
    /\ Day1Idle
    /\ Day2Idle
    /\ Day4Idle
    /\ Day5Idle
    /\ pc3 = "start"
    /\ banks \in Part2DataToTry
    /\ total_output_joltage = 0
    /\ part1_total = 0
    /\ part2_total = <<>>

\* A call solve_part2(data).
Day3SolvePart2 ==
    /\ pc3 = "start"
    /\ \E ret \in {day3_solve_part2(banks)} :
          /\ pc3' = IF ret.raised THEN "part2_raised_ValueError" ELSE "part2_returned"
          /\ part2_total' = ret.total
    /\ UNCHANGED <<banks, total_output_joltage, part1_total, vars1, vars2, vars4, vars5>>

\* A call solve_part2_optimized(data).
Day3SolvePart2Optimized ==
    /\ pc3 = "start"
    /\ \E ret \in {day3_solve_part2_optimized(banks)} :
          /\ pc3' = IF ret.raised THEN "part2_optimized_raised_ValueError"
                    ELSE "part2_optimized_returned"
          /\ part2_total' = ret.total
    /\ UNCHANGED <<banks, total_output_joltage, part1_total, vars1, vars2, vars4, vars5>>

\* The part-1 half of solve_combined_optimized's loop body: the largest
\* available digit is looked for only if there is one.
CombinedPart1Line(line) ==
    LET digit_positions == DigitPositions(line)
        available_digits == SubSeq(digit_positions, 1, Len(digit_positions) - 1)
    IN  IF Len(available_digits) = 0 THEN 0
        ELSE LET max_position == FirstMaxPosition(line, available_digits)
                 remaining_digits ==
                     SelectSeq(digit_positions, LAMBDA pos : pos > max_position)
             IN  IF Len(remaining_digits) = 0 THEN 0
                 ELSE DigitAt(line, max_position) * 10
                      + MaxOf([n \in 1 .. Len(remaining_digits) |->
                                  DigitAt(line, remaining_digits[n])])

\* The part-2 half: one round of the loop over i, and the rounds for i,
\* i - 1, ..., 0.
CombinedPart2Round(line, i, st) ==
    LET end_pos == Len(line) - i
        valid_digits ==
            SelectSeq(DigitPositions(line),
                      LAMBDA pos : st.last_index < pos /\ pos < end_pos)
    IN  IF end_pos <= st.last_index + 1 THEN st
        ELSE IF Len(valid_digits) = 0 THEN [st EXCEPT !.broke = TRUE]
        ELSE [broke |-> FALSE,
              last_index |-> FirstMaxPosition(line, valid_digits),
              final_digits |->
                  Append(st.final_digits,
                         MaxOf([n \in 1 .. Len(valid_digits) |->
                                   DigitAt(line, valid_digits[n])]))]

RECURSIVE CombinedPart2Rounds(_, _, _)
CombinedPart2Rounds(line, i, st) ==
    IF i < 0 \/ st.broke THEN st
    ELSE CombinedPart2Rounds(line, i - 1,
                             Only({ CombinedPart2Round(line, i, s) : s \in {st} }))

\* The body of solve_combined_optimized's loop over the lines: what the
\* line adds to each total, or raised when int(char) raises.
CombinedLine(line) ==
    IF IntRaisesIn(line) THEN [raised |-> TRUE, part1 |-> 0, part2 |-> <<>>]
    ELSE LET st == CombinedPart2Rounds(line, 11, [broke |-> FALSE, last_index |-> -1,
                                                  final_digits |-> <<>>])
         IN  [raised |-> FALSE,
              part1 |-> CombinedPart1Line(line),
              part2 |-> BigOfDigits(st.final_digits, 1, <<>>)]

RECURSIVE CombinedLoop(_, _, _, _)
CombinedLoop(lines_given, k, total1, total2) ==
    IF k > Len(lines_given)
    THEN [raised |-> FALSE, part1_total |-> total1, part2_total |-> total2]
    ELSE LET added == Only({ CombinedLine(line) : line \in {lines_given[k]} })
         IN  IF added.raised
             THEN [raised |-> TRUE, part1_total |-> total1, part2_total |-> total2]
             ELSE CombinedLoop(lines_given, k + 1, total1 + added.part1,
                               BigAdd(total2, added.part2))

day3_solve_combined_optimized(lines_given) == CombinedLoop(lines_given, 1, 0, <<>>)

\* A call solve_combined_optimized(data).
Day3SolveCombined ==
    /\ pc3 = "start"
    /\ \E ret \in {day3_solve_combined_optimized(banks)} :
          /\ pc3' = IF ret.raised THEN "combined_raised_ValueError" ELSE "combined_returned"
          /\ part1_total' = ret.part1_total
          /\ part2_total' = ret.part2_total
    /\ UNCHANGED <<banks, total_output_joltage, vars1, vars2, vars4, vars5>>

NextDay3Part2 == Day3SolvePart2 \/ Day3SolvePart2Optimized \/ Day3SolveCombined

SpecDay3Part2 == InitDay3Part2 /\ [][NextDay3Part2]_vars

\* C21: on every list of lines, those with lines of fewer than 12 characters
\* and with characters that are no digits among them, solve_part2_optimized
\* returns the result solve_part2 returns: when one of the two has returned,
\* the other one returns too, with the same result.
C21_Part2OptimizedAgrees ==
    /\ pc3 = "part2_returned" =>
          /\ ~day3_solve_part2_optimized(banks).raised
          /\ part2_total = day3_solve_part2_optimized(banks).total
    /\ pc3 = "part2_optimized_returned" =>
          /\ ~day3_solve_part2(banks).raised
          /\ part2_total = day3_solve_part2(banks).total

\* The two agree where solve_part2 returns and every digit is one of 0 to 9.
AsciiDigitsOnly ==
    \A k \in 1 .. Len(banks) : \A n \in 1 .. Len(banks[k]) : banks[k][n] # ArabicIndicNine
Part2OptimizedAgreesWherePart2Returns ==
    (pc3 = "part2_returned" /\ AsciiDigitsOnly) =>
        /\ ~day3_solve_part2_optimized(banks).raised
        /\ part2_total = day3_solve_part2_optimized(banks).total

\* C22: on every list of lines, solve_combined_optimized returns the pair
\* of what solve_part1_optimized and solve_part2_optimized return: when it
\* has returned, each of these two returns, with the total of its part.
C22_CombinedIsThePair ==
    pc3 = "combined_returned" =>
        /\ ~day3_solve_part1_optimized(banks).raised
        /\ part1_total = day3_solve_part1_optimized(banks).total
        /\ ~day3_solve_part2_optimized(banks).raised
        /\ part2_total = day3_solve_part2_optimized(banks).total

\* The pair is the one of the two solvers where solve_part1_optimized returns.
CombinedIsThePairWherePart1Returns ==
    (pc3 = "combined_returned" /\ ~day3_solve_part1_optimized(banks).raised) =>
        /\ part1_total = day3_solve_part1_optimized(banks).total
        /\ ~day3_solve_part2_optimized(banks).raised
        /\ part2_total = day3_solve_part2_optimized(banks).total

\* The sets of k of the positions 0 to n - 1.
RECURSIVE PositionSets(_, _)
PositionSets(n, k) ==
    IF k = 0 THEN {{}}
    ELSE IF n < k THEN {}
    ELSE PositionSets(n - 1, k) \cup { S \cup {n - 1} : S \in PositionSets(n - 1, k - 1) }

\* The digits of a line of digits without those at the positions left out,
\* in their order.
DigitsWithout(line, left_out) ==
    LET kept == SelectSeq([k \in 1 .. Len(line) |-> k - 1], LAMBDA pos : pos \notin left_out)
    IN  [n \in 1 .. Len(kept) |-> DigitAt(line, kept[n])]

\* a is no smaller than b as a number, for two sequences of as many digits.
NotSmaller(a, b) ==
    \/ a = b
    \/ \E k \in 1 .. Len(a) : a[k] > b[k] /\ \A m \in 1 .. (k - 1) : a[m] = b[m]

\* The largest number formed by 12 digits of a line of 12 digits or more,
\* taken in their order.
LargestTwelve(line) ==
    LET formed == { DigitsWithout(line, left_out) :
                       left_out \in PositionSets(Len(line), Len(line) - 12) }
    IN  BigNormal(CHOOSE a \in formed : \A b \in formed : NotSmaller(a, b))

\* The positions solve_part2 picks in a line come one after another in it.
StrictlyIncreasing(picked) ==
    \A k \in 1 .. (Len(picked) - 1) : picked[k] < picked[k + 1]

\* C24: for a line of digits only, 12 or more, solve_part2 picks 12 digits
\* at strictly increasing positions of the line, and the number they form is
\* the largest that 12 digits of the line in their order form: called on the
\* line alone, solve_part2 returns that number.
C24_Part2PicksLargestTwelve ==
    (/\ pc3 \in {"part2_returned", "part2_raised_ValueError"}
     /\ Len(banks) = 1
     /\ Len(banks[1]) >= 12
     /\ OnlyDigits(banks[1])) =>
        /\ pc3 = "part2_returned"
        /\ Len(Part2Line(banks[1]).picked) = 12
        /\ StrictlyIncreasing(Part2Line(banks[1]).picked)
        /\ \A k \in 1 .. 12 : Part2Line(banks[1]).picked[k] \in 0 .. (Len(banks[1]) - 1)
        /\ part2_total = BigNormal([k \in 1 .. 12 |->
                                       DigitAt(banks[1], Part2Line(banks[1]).picked[k])])
        /\ part2_total = LargestTwelve(banks[1])

\* It is so for the lines of the digits 0 to 9.
Part2PicksLargestTwelveOfAsciiDigits ==
    (/\ pc3 \in {"part2_returned", "part2_raised_ValueError"}
     /\ Len(banks) = 1
     /\ Len(banks[1]) >= 12
     /\ \A k \in 1 .. Len(banks[1]) : IsDigit(banks[1][k])) =>
        /\ pc3 = "part2_returned"
        /\ Len(Part2Line(banks[1]).picked) = 12
        /\ StrictlyIncreasing(Part2Line(banks[1]).picked)
        /\ part2_total = BigNormal([k \in 1 .. 12 |->
                                       DigitAt(banks[1], Part2Line(banks[1]).picked[k])])
        /\ part2_total = LargestTwelve(banks[1])

(***************************************************************************)
(* Day 4                                                                   *)
(***************************************************************************)

\* Every grid of at most MaxCells cells is tried, with '.' or with 'x' in
\* the cells that are not '@', and every DenseRows x DenseCols grid with at
\* most MaxHoles cells that are not '@': no '@' cell outlasts the passes in
\* a grid with fewer than 4 rows or columns, and in a 4 x 4 grid those that
\* do are all left after the first pass.
MaxCells == 9
DenseRows == 4
DenseCols == 5
MaxHoles == 2

\* The grids are rectangular, as the claims take them: every row has the
\* len(data[0]) cells the code takes for cols.
\* The cells (i, j), counted from 0 as in the code, of a grid r x c.
CellsOf(r, c) == (0 .. (r - 1)) \X (0 .. (c - 1))

\* The grid r x c with '@' in the cells of ats and blank elsewhere.
GridOf(r, c, ats, blank) ==
    [i \in 1 .. r |-> [j \in 1 .. c |->
        IF <<i - 1, j - 1>> \in ats THEN "@" ELSE blank]]

\* The subsets of S of at most n elements.
RECURSIVE SubsetsUpTo(_, _)
SubsetsUpTo(S, n) ==
    IF n = 0 THEN {{}}
    ELSE LET smaller == SubsetsUpTo(S, n - 1)
         IN  smaller \cup { t \cup {e} : t \in smaller, e \in S }

\* A grid holds '@' and one other symbol: '.', as the input files do, or 'x'.
Blanks == {".", "x"}

SmallDims ==
    { d \in (1 .. MaxCells) \X (1 .. MaxCells) : d[1] * d[2] <= MaxCells }

SmallGrids ==
    UNION { { GridOf(d[1], d[2], ats, blank) :
                ats \in SUBSET CellsOf(d[1], d[2]), blank \in Blanks } :
            d \in SmallDims }

DenseGrids ==
    { GridOf(DenseRows, DenseCols, CellsOf(DenseRows, DenseCols) \ holes, ".") :
        holes \in SubsetsUpTo(CellsOf(DenseRows, DenseCols), MaxHoles) }

GridsToTry == {<<>>} \cup SmallGrids \cup DenseGrids

\* len(data) and len(data[0]).
RowsOf(grid) == Len(grid)
ColsOf(grid) == IF Len(grid) = 0 THEN 0 ELSE Len(grid[1])

\* data[i][j], i and j counted from 0.
CellAt(grid, i, j) == grid[i + 1][j + 1]

\* The 8 directions, in the order the code scans them.
directions ==
    << <<-1, -1>>, <<-1, 0>>, <<-1, 1>>, <<0, -1>>,
       <<0, 1>>, <<1, -1>>, <<1, 0>>, <<1, 1>> >>

\* A threshold that lets exactly four '@' neighbours pass as removable.
RemovalThresholdAboveFour == 4 + 1

\* The number of '@' neighbours from which a cell is not removable.
RemovalThreshold == 4

\* The loop over the directions from the k-th on, at_count '@' found so far:
\* 0 as soon as an in-bounds neighbour brings the count to the threshold,
\* 1 when the directions run out (counted is bound through a set so that
\* it is a value when the next direction is scanned).
RECURSIVE ScanDirections(_, _, _, _, _, _, _)
ScanDirections(grid, i, j, rows, cols, k, at_count) ==
    IF k > Len(directions) THEN 1
    ELSE LET ni == i + directions[k][1]
             nj == j + directions[k][2]
             in_bounds == 0 <= ni /\ ni < rows /\ 0 <= nj /\ nj < cols
         IN  Only({ IF in_bounds /\ counted >= RemovalThreshold THEN 0
                    ELSE ScanDirections(grid, i, j, rows, cols, k + 1, counted) :
                    counted \in {IF in_bounds /\ CellAt(grid, ni, nj) = "@"
                                 THEN at_count + 1 ELSE at_count} })

removable_at_symbols(grid, i, j, rows, cols) ==
    ScanDirections(grid, i, j, rows, cols, 1, 0)

\* What solve_part1 adds for a cell when it asks every cell, '@' or not.
Part1TermUnfiltered(grid, i, j, rows, cols) ==
    removable_at_symbols(grid, i, j, rows, cols)

\* What solve_part1 adds for cell (i, j): only an '@' cell is asked.
Part1Term(grid, i, j, rows, cols) ==
    IF CellAt(grid, i, j) = "@"
    THEN removable_at_symbols(grid, i, j, rows, cols)
    ELSE 0

\* The two nested loops of solve_part1 from the k-th cell in row-major order.
RECURSIVE Part1From(_, _, _, _)
Part1From(grid, rows, cols, k) ==
    IF k >= rows * cols THEN 0
    ELSE Part1Term(grid, k \div cols, k % cols, rows, cols)
         + Part1From(grid, rows, cols, k + 1)

\* solve_part1 with its row loop started at the second row.
solve_part1_from_second_row(grid) ==
    IF grid = <<>> THEN 0
    ELSE Part1From(grid, RowsOf(grid), ColsOf(grid), ColsOf(grid))

solve_part1(grid) ==
    IF grid = <<>> THEN 0
    ELSE Part1From(grid, RowsOf(grid), ColsOf(grid), 0)

\* data[i][j] = ".".
RemoveAt(grid, i, j) == [grid EXCEPT ![i + 1][j + 1] = "."]

\* The body of the inner loop with the removal made and not counted.
VisitCellUncounted(grid, i, j, rows, cols, count) ==
    IF CellAt(grid, i, j) # "@"
    THEN [data |-> grid, pass_result |-> count]
    ELSE LET item_result == removable_at_symbols(grid, i, j, rows, cols)
         IN  [data |-> IF item_result = 1 THEN RemoveAt(grid, i, j) ELSE grid,
              pass_result |-> count]

\* The body of the inner loop with the removable cell counted and left in
\* the grid.
VisitCellNotRemoved(grid, i, j, rows, cols, count) ==
    IF CellAt(grid, i, j) # "@"
    THEN [data |-> grid, pass_result |-> count]
    ELSE [data |-> grid,
          pass_result |-> count + removable_at_symbols(grid, i, j, rows, cols)]

\* The body of the inner loop without its continue: a cell that does not
\* hold '@' is asked and removed like one that does.
VisitCellUnfiltered(grid, i, j, rows, cols, count) ==
    Only({ [data |-> IF item_result = 1 THEN RemoveAt(grid, i, j) ELSE grid,
            pass_result |-> count + item_result] :
           item_result \in {removable_at_symbols(grid, i, j, rows, cols)} })

\* The body of solve_part2's inner loop for cell (i, j): the grid and the
\* pass's count after it.
VisitCell(grid, i, j, rows, cols, count) ==
    IF CellAt(grid, i, j) # "@"
    THEN [data |-> grid, pass_result |-> count]
    ELSE Only({ [data |-> IF item_result = 1 THEN RemoveAt(grid, i, j) ELSE grid,
                 pass_result |-> count + item_result] :
                item_result \in {removable_at_symbols(grid, i, j, rows, cols)} })

\* One pass of solve_part2 from the k-th cell in row-major order, each cell
\* seeing the removals made earlier in the same pass (st and next_k are
\* bound through sets so that they are values when the next cell is visited).
RECURSIVE ScanPass(_, _, _, _, _)
ScanPass(grid, rows, cols, k, count) ==
    IF k >= rows * cols THEN [data |-> grid, pass_result |-> count]
    ELSE Only({ ScanPass(st.data, rows, cols, next_k, st.pass_result) :
                st \in {VisitCell(grid, k \div cols, k % cols, rows, cols, count)},
                next_k \in {k + 1} })

\* A loop that runs its first pass only.
LoopRunsOnce(last_pass_result) == last_pass_result = -1

\* A loop that ends after a pass that removed a single cell.
LoopContinuesAfterSeveral(last_pass_result) ==
    last_pass_result = -1 \/ last_pass_result > 1

\* The while loop of solve_part2 runs another pass.
LoopContinues(last_pass_result) == last_pass_result # 0

InitDay4 ==
    /\ Day3Idle
    /\ Day1Idle
    /\ Day2Idle
    /\ Day5Idle
    /\ pc4 = "start"
    /\ data \in GridsToTry
    /\ data_on_entry = data
    /\ cell_i = 0
    /\ cell_j = 0
    /\ result = 0
    /\ pass_result = 0
    /\ passes = 0
    /\ calls = 0
    /\ at_positions = {}
    /\ cells_to_check = {}

\* A call removable_at_symbols(data, i, j, rows, cols) on a cell of the grid.
RemovableAtSymbols ==
    /\ pc4 = "start"
    /\ \E i \in 0 .. (RowsOf(data) - 1), j \in 0 .. (ColsOf(data) - 1) :
        /\ cell_i' = i
        /\ cell_j' = j
        /\ result' = removable_at_symbols(data, i, j, RowsOf(data), ColsOf(data))
    /\ pc4' = "removable_returned"
    /\ UNCHANGED <<data, data_on_entry, pass_result, passes, at_positions, cells_to_check,
                   calls, vars1, vars2, vars3, vars5>>

\* A call solve_part1(data).
SolvePart1 ==
    /\ pc4 = "start"
    /\ result' = solve_part1(data)
    /\ pc4' = "part1_returned"
    /\ UNCHANGED <<data, data_on_entry, cell_i, cell_j, pass_result, passes, at_positions, cells_to_check,
                   calls, vars1, vars2, vars3, vars5>>

\* solve_part2(data) up to its while loop: an empty grid returns 0 at once.
SolvePart2Enter ==
    /\ pc4 = "start"
    /\ IF data = <<>>
       THEN /\ pc4' = "part2_returned"
            /\ result' = 0
            /\ UNCHANGED pass_result
       ELSE /\ pc4' = "part2_loop"
            /\ result' = 0
            /\ pass_result' = -1
    /\ calls' = 1
    /\ UNCHANGED <<data, data_on_entry, cell_i, cell_j, passes, at_positions, cells_to_check,
                   vars1, vars2, vars3, vars5>>

\* One pass of the while loop.
SolvePart2Pass ==
    /\ pc4 = "part2_loop"
    /\ LoopContinues(pass_result)
    /\ \E after \in {ScanPass(data, RowsOf(data), ColsOf(data), 0, 0)} :
           /\ data' = after.data
           /\ pass_result' = after.pass_result
           /\ result' = result + after.pass_result
    /\ passes' = passes + 1
    /\ UNCHANGED <<pc4, data_on_entry, cell_i, cell_j, at_positions, cells_to_check,
                   calls, vars1, vars2, vars3, vars5>>

\* The while loop ends and solve_part2 returns result.
SolvePart2Return ==
    /\ pc4 = "part2_loop"
    /\ ~LoopContinues(pass_result)
    /\ pc4' = "part2_returned"
    /\ UNCHANGED <<data, data_on_entry, cell_i, cell_j, result, pass_result, passes, at_positions, cells_to_check,
                   calls, vars1, vars2, vars3, vars5>>

NextDay4 ==
    \/ RemovableAtSymbols
    \/ SolvePart1
    \/ SolvePart2Enter
    \/ SolvePart2Pass
    \/ SolvePart2Return

SpecDay4 == InitDay4 /\ [][NextDay4]_vars

\* The grids on which the part-2 solvers are run to their return: the small
\* grids of '@' and '.', and the dense grids with one hole fewer.
GridsToRun ==
    {<<>>} \cup
    UNION { { GridOf(d[1], d[2], ats, ".") : ats \in SUBSET CellsOf(d[1], d[2]) } :
            d \in SmallDims } \cup
    { GridOf(DenseRows, DenseCols, CellsOf(DenseRows, DenseCols) \ holes, ".") :
        holes \in SubsetsUpTo(CellsOf(DenseRows, DenseCols), MaxHoles - 1) }

InitPart2 ==
    /\ Day3Idle
    /\ Day1Idle
    /\ Day2Idle
    /\ Day5Idle
    /\ pc4 = "start"
    /\ data \in GridsToRun
    /\ data_on_entry = data
    /\ cell_i = 0
    /\ cell_j = 0
    /\ result = 0
    /\ pass_result = 0
    /\ passes = 0
    /\ calls = 0
    /\ at_positions = {}
    /\ cells_to_check = {}

\* solve_part2 alone, and running on: a step that can be taken is taken.
NextPart2 == SolvePart2Enter \/ SolvePart2Pass \/ SolvePart2Return

SpecPart2Fair == InitPart2 /\ [][NextPart2]_vars /\ WF_vars(NextPart2)

\* solve_part2 is called at most MaxCalls times on the same grid.
MaxCalls == 2

InitPart2Twice ==
    /\ Day3Idle
    /\ Day1Idle
    /\ Day2Idle
    /\ Day5Idle
    /\ pc4 = "start"
    /\ data \in GridsToTry
    /\ data_on_entry = data
    /\ cell_i = 0
    /\ cell_j = 0
    /\ result = 0
    /\ pass_result = 0
    /\ passes = 0
    /\ calls = 0
    /\ at_positions = {}
    /\ cells_to_check = {}

\* Another call solve_part2(data) on the grid the call before has mutated
\* (benchmark_function copies the grid before each run so as not to make it).
SolvePart2EnterAgain ==
    /\ pc4 = "part2_returned"
    /\ calls < MaxCalls
    /\ IF data = <<>>
       THEN /\ pc4' = "part2_returned"
            /\ result' = 0
            /\ UNCHANGED pass_result
       ELSE /\ pc4' = "part2_loop"
            /\ result' = 0
            /\ pass_result' = -1
    /\ calls' = calls + 1
    /\ data_on_entry' = data
    /\ UNCHANGED <<data, cell_i, cell_j, passes, at_positions, cells_to_check,
                   vars1, vars2, vars3, vars5>>

NextPart2Twice ==
    \/ SolvePart2Enter
    \/ SolvePart2Pass
    \/ SolvePart2Return
    \/ SolvePart2EnterAgain

SpecPart2Twice == InitPart2Twice /\ [][NextPart2Twice]_vars

\* The '@' cells among the in-bounds cells of the 8 neighbours of (i, j).
NeighbourAts(grid, i, j) ==
    { n \in CellsOf(RowsOf(grid), ColsOf(grid)) :
        /\ n # <<i, j>>
        /\ n[1] - i \in {-1, 0, 1}
        /\ n[2] - j \in {-1, 0, 1}
        /\ CellAt(grid, n[1], n[2]) = "@" }

FewerThanFour(grid, i, j) == Cardinality(NeighbourAts(grid, i, j)) < 4

AtCells(grid) ==
    { c \in CellsOf(RowsOf(grid), ColsOf(grid)) : CellAt(grid, c[1], c[2]) = "@" }

\* The 3 x 3 grids of the tests: a single '@' in the centre, and all '@'.
CentreOnly == GridOf(3, 3, {<<1, 1>>}, ".")
AllAt3x3 == GridOf(3, 3, CellsOf(3, 3), ".")

\* C3: removable_at_symbols returns 1 exactly when fewer than four of the
\* in-bounds cells among the 8 neighbours of (i, j) hold '@' and 0 otherwise;
\* what cell (i, j) itself holds makes no difference to the value returned.
C3_RemovableIffFewerThanFour ==
    pc4 = "removable_returned" =>
        /\ result = (IF FewerThanFour(data, cell_i, cell_j) THEN 1 ELSE 0)
        /\ \A sym \in {"@", ".", "x"} :
              removable_at_symbols(
                  [data EXCEPT ![cell_i + 1][cell_j + 1] = sym],
                  cell_i, cell_j, RowsOf(data), ColsOf(data)) = result

\* A cell on the border, not itself '@', with exactly four '@' neighbours
\* is not removable.
C3_Witness ==
    /\ pc4 = "removable_returned"
    /\ cell_i = 0
    /\ CellAt(data, cell_i, cell_j) # "@"
    /\ Cardinality(NeighbourAts(data, cell_i, cell_j)) = 4
    /\ result = 0

\* C4: when solve_part2 returns, no cell still holding '@' has fewer than
\* four '@' cells among its in-bounds 8 neighbours.
C4_Part2EndsAtFixedPoint ==
    pc4 = "part2_returned" =>
        \A c \in AtCells(data) : ~FewerThanFour(data, c[1], c[2])

\* solve_part2 has returned after removing some '@' cells over at least two
\* removing passes, and some '@' cells are left.
C4_Witness ==
    /\ pc4 = "part2_returned"
    /\ passes >= 3
    /\ result > 0
    /\ AtCells(data) # {}

PassesWithinBound ==
    pc4 \in {"part2_loop", "part2_returned"} =>
        /\ passes <= Cardinality(AtCells(data_on_entry)) + 1
        /\ result = Cardinality(AtCells(data_on_entry)) - Cardinality(AtCells(data))
        /\ (pass_result > 0 => passes <= result)
        /\ (pass_result = 0 => passes <= result + 1)

\* C18: solve_part2 terminates on every rectangular grid: once in its
\* while loop it returns; every pass except the last removes at least one
\* '@', and the passes are at most the '@' cells on entry plus one.
C18_Part2Terminates ==
    /\ []PassesWithinBound
    /\ (pc4 = "part2_loop") ~> (pc4 = "part2_returned")

\* solve_part2 has returned after four passes, three of them removing.
C18_Witness ==
    /\ pc4 = "part2_returned"
    /\ passes = 4
    /\ result >= 3
    /\ pass_result = 0

\* C25: solve_part2 changes cells from '@' to '.' only: in its loop and on
\* return the grid has the rows and columns it had on entry, a cell that did
\* not hold '@' on entry holds what it held, a cell that holds '@' held it
\* on entry, every other cell holds '.', and on return the count returned is
\* the number of '@' cells on entry less the number of '@' cells left.
C25_Part2OnlyTurnsAtsIntoDots ==
    (pc4 \in {"part2_loop", "part2_returned"} /\ calls = 1) =>
        /\ RowsOf(data) = RowsOf(data_on_entry)
        /\ ColsOf(data) = ColsOf(data_on_entry)
        /\ \A c \in CellsOf(RowsOf(data_on_entry), ColsOf(data_on_entry)) :
              /\ CellAt(data_on_entry, c[1], c[2]) # "@" =>
                    CellAt(data, c[1], c[2]) = CellAt(data_on_entry, c[1], c[2])
              /\ CellAt(data, c[1], c[2]) = "@" => CellAt(data_on_entry, c[1], c[2]) = "@"
              /\ CellAt(data, c[1], c[2]) # CellAt(data_on_entry, c[1], c[2]) =>
                    CellAt(data, c[1], c[2]) = "."
        /\ pc4 = "part2_returned" =>
              result = Cardinality(AtCells(data_on_entry)) - Cardinality(AtCells(data))

\* solve_part2 has returned from a grid with cells holding 'x', after two
\* removing passes: the 'x' cells are as they were and the '@' cells gone.
C25_Witness ==
    /\ pc4 = "part2_returned"
    /\ \E c \in CellsOf(RowsOf(data_on_entry), ColsOf(data_on_entry)) :
          /\ CellAt(data_on_entry, c[1], c[2]) = "x"
          /\ CellAt(data, c[1], c[2]) = "x"
    /\ passes = 3
    /\ result >= 5
    /\ AtCells(data) = {}

\* C26: solve_part2 called again on the grid a first call has left changes
\* no cell and returns 0: in the loop of a later call and on its return the
\* grid is the one the call was given, and the count returned is 0.
C26_Part2AgainChangesNothing ==
    (pc4 \in {"part2_loop", "part2_returned"} /\ calls >= 2) =>
        /\ data = data_on_entry
        /\ pc4 = "part2_returned" => result = 0

\* The second call has returned 0 after its single pass, the first call
\* having run three passes or more, with '@' cells left in the grid.
C26_Witness ==
    /\ pc4 = "part2_returned"
    /\ calls = 2
    /\ passes >= 4
    /\ pass_result = 0
    /\ result = 0
    /\ AtCells(data) # {}
    /\ data = data_on_entry

(***************************************************************************)
(* Day 4: solve_part2_tracking_at_cells and solve_part2_differential       *)
(***************************************************************************)

\* A set of at most MaxPermuted cells is iterated in every order; a larger
\* one by rows or by columns, forwards or backwards.
MaxPermuted == 3

\* The loop that builds at_positions: the cells holding '@'.
BuildAtPositions(grid) ==
    { c \in CellsOf(RowsOf(grid), ColsOf(grid)) : CellAt(grid, c[1], c[2]) = "@" }

\* The cells of S in the order of their keys, smallest first.
RECURSIVE SortedBy(_, _)
SortedBy(S, key) ==
    IF S = {} THEN <<>>
    ELSE LET first == CHOOSE c \in S : \A d \in S : key[c] <= key[d]
         IN  <<first>> \o SortedBy(S \ {first}, key)

RowMajor(S) == SortedBy(S, [c \in S |-> c[1] * (MaxCells + DenseCols) + c[2]])
ColumnMajor(S) == SortedBy(S, [c \in S |-> c[2] * (MaxCells + DenseRows) + c[1]])
Reverse(seq) == [k \in 1 .. Len(seq) |-> seq[Len(seq) + 1 - k]]

\* The orders in which iterating over the set S may yield its elements.
OrdersToTry(S) ==
    IF Cardinality(S) <= MaxPermuted
    THEN { order \in [1 .. Cardinality(S) -> S] :
             \A a, b \in 1 .. Cardinality(S) : a # b => order[a] # order[b] }
    ELSE { RowMajor(S), Reverse(RowMajor(S)), ColumnMajor(S), Reverse(ColumnMajor(S)) }

\* The scan of a pass over the cells in the given order: removals, the
\* cells in at_pos found removable, in the order met.  (Every cell that
\* solve_part2_tracking_at_cells scans is in at_positions.)
RECURSIVE ScanCells(_, _, _, _)
ScanCells(grid, at_pos, order, k) ==
    IF k > Len(order) THEN <<>>
    ELSE IF /\ order[k] \in at_pos
            /\ removable_at_symbols(grid, order[k][1], order[k][2],
                                    RowsOf(grid), ColsOf(grid)) = 1
         THEN <<order[k]>> \o ScanCells(grid, at_pos, order, k + 1)
         ELSE ScanCells(grid, at_pos, order, k + 1)

\* The '@' positions next to cell c that are still in at_pos.
NeighboursIn(grid, at_pos, c) ==
    { n \in at_pos :
        /\ n # c
        /\ n[1] - c[1] \in {-1, 0, 1}
        /\ n[2] - c[2] \in {-1, 0, 1}
        /\ 0 <= n[1] /\ n[1] < RowsOf(grid)
        /\ 0 <= n[2] /\ n[2] < ColsOf(grid) }

\* The removal of one cell with the position dropped from the tracking set
\* and the grid left as it was.
RemoveCellFromSetOnly(st, c) ==
    [st EXCEPT !.at_positions = @ \ {c}]

\* The removal of one cell with next_check started afresh: only the
\* neighbours of the cell removed last are left in it.
RemoveCellRestartingNextCheck(st, c) ==
    [data |-> RemoveAt(st.data, c[1], c[2]),
     at_positions |-> st.at_positions \ {c},
     next_check |-> NeighboursIn(st.data, st.at_positions \ {c}, c)]

\* The body of the removal loop of solve_part2_tracking_at_cells.
RemoveCell(st, c) ==
    [st EXCEPT !.data = RemoveAt(@, c[1], c[2]), !.at_positions = @ \ {c}]

\* The body of the removal loop of solve_part2_differential: the neighbours
\* still in at_positions after the removal are added to next_check.
RemoveCellAndRecheck(st, c) ==
    [data |-> RemoveAt(st.data, c[1], c[2]),
     at_positions |-> st.at_positions \ {c},
     next_check |-> st.next_check \cup NeighboursIn(st.data, st.at_positions \ {c}, c)]

\* The removal loops over removals from the k-th on (nst is bound through a
\* set so that it is a value when the next cell is removed).
RECURSIVE RemoveCells(_, _, _)
RemoveCells(st, removals, k) ==
    IF k > Len(removals) THEN st
    ELSE Only({ RemoveCells(nst, removals, k + 1) : nst \in {RemoveCell(st, removals[k])} })

RECURSIVE RemoveCellsAndRecheck(_, _, _)
RemoveCellsAndRecheck(st, removals, k) ==
    IF k > Len(removals) THEN st
    ELSE Only({ RemoveCellsAndRecheck(nst, removals, k + 1) :
                nst \in {RemoveCellAndRecheck(st, removals[k])} })

\* One turn of the while loop of solve_part2_tracking_at_cells with
\* at_positions iterated in the given order; done at the break.
TrackingPassIn(st, order) ==
    Only({ IF removals = <<>> THEN [st EXCEPT !.done = TRUE]
           ELSE Only({ [data |-> after.data, at_positions |-> after.at_positions,
                        result |-> st.result + Len(removals), done |-> FALSE] :
                       after \in {RemoveCells([data |-> st.data,
                                               at_positions |-> st.at_positions],
                                              removals, 1)} }) :
           removals \in {ScanCells(st.data, st.at_positions, order, 1)} })

\* One turn of the while loop of solve_part2_differential with
\* cells_to_check iterated in the given order; done at the break.
DifferentialPassIn(st, order) ==
    Only({ IF removals = <<>> THEN [st EXCEPT !.done = TRUE]
           ELSE Only({ [data |-> after.data, at_positions |-> after.at_positions,
                        cells_to_check |-> after.next_check,
                        result |-> st.result + Len(removals), done |-> FALSE] :
                       after \in {RemoveCellsAndRecheck([data |-> st.data,
                                                         at_positions |-> st.at_positions,
                                                         next_check |-> {}],
                                                        removals, 1)} }) :
           removals \in {ScanCells(st.data, st.at_positions, order, 1)} })

\* solve_part2(grid) as a value: the while loop run to its end.
RECURSIVE Part2Loop(_, _, _)
Part2Loop(grid, result_so_far, last_pass_result) ==
    IF ~LoopContinues(last_pass_result) THEN [data |-> grid, result |-> result_so_far]
    ELSE Only({ Part2Loop(after.data, result_so_far + after.pass_result, after.pass_result) :
                after \in {ScanPass(grid, RowsOf(grid), ColsOf(grid), 0, 0)} })

solve_part2(grid) ==
    IF grid = <<>> THEN [data |-> grid, result |-> 0]
    ELSE Part2Loop(grid, 0, -1)

\* The two solvers as values, their sets iterated by rows.
RECURSIVE TrackingLoop(_)
TrackingLoop(st) ==
    IF st.done THEN [data |-> st.data, result |-> st.result]
    ELSE Only({ TrackingLoop(nst) : nst \in {TrackingPassIn(st, RowMajor(st.at_positions))} })

solve_part2_tracking_at_cells(grid) ==
    IF grid = <<>> THEN [data |-> grid, result |-> 0]
    ELSE TrackingLoop([data |-> grid, at_positions |-> BuildAtPositions(grid),
                       result |-> 0, done |-> FALSE])

RECURSIVE DifferentialLoop(_)
DifferentialLoop(st) ==
    IF st.done \/ st.cells_to_check = {} THEN [data |-> st.data, result |-> st.result]
    ELSE Only({ DifferentialLoop(nst) :
                nst \in {DifferentialPassIn(st, RowMajor(st.cells_to_check))} })

solve_part2_differential(grid) ==
    IF grid = <<>> THEN [data |-> grid, result |-> 0]
    ELSE DifferentialLoop([data |-> grid, at_positions |-> BuildAtPositions(grid),
                           cells_to_check |-> BuildAtPositions(grid),
                           result |-> 0, done |-> FALSE])

\* A call of one of the two solvers on a grid.
InitPart2Variants ==
    /\ Day3Idle
    /\ Day1Idle
    /\ Day2Idle
    /\ Day5Idle
    /\ pc4 = "start"
    /\ data \in GridsToRun
    /\ data_on_entry = data
    /\ cell_i = 0
    /\ cell_j = 0
    /\ result = 0
    /\ pass_result = 0
    /\ passes = 0
    /\ calls = 0
    /\ at_positions = {}
    /\ cells_to_check = {}

\* solve_part2_tracking_at_cells(data) up to its while loop.
TrackingEnter ==
    /\ pc4 = "start"
    /\ IF data = <<>>
       THEN pc4' = "tracking_returned" /\ UNCHANGED at_positions
       ELSE pc4' = "tracking_loop" /\ at_positions' = BuildAtPositions(data)
    /\ result' = 0
    /\ UNCHANGED <<data, data_on_entry, cell_i, cell_j, pass_result, passes,
                   cells_to_check, calls, vars1, vars2, vars3, vars5>>

\* One turn of its while loop, at_positions iterated in some order: the
\* removals are made and counted, or there are none and it returns.
TrackingPass ==
    /\ pc4 = "tracking_loop"
    /\ \E order \in OrdersToTry(at_positions) :
        \E after \in {TrackingPassIn([data |-> data, at_positions |-> at_positions,
                                      result |-> result, done |-> FALSE], order)} :
            /\ pc4' = IF after.done THEN "tracking_returned" ELSE "tracking_loop"
            /\ data' = after.data
            /\ at_positions' = after.at_positions
            /\ result' = after.result
    /\ passes' = passes + 1
    /\ UNCHANGED <<data_on_entry, cell_i, cell_j, pass_result, cells_to_check,
                   calls, vars1, vars2, vars3, vars5>>

\* solve_part2_differential(data) up to its while loop.
DifferentialEnter ==
    /\ pc4 = "start"
    /\ IF data = <<>>
       THEN pc4' = "differential_returned" /\ UNCHANGED <<at_positions, cells_to_check>>
       ELSE /\ pc4' = "differential_loop"
            /\ at_positions' = BuildAtPositions(data)
            /\ cells_to_check' = BuildAtPositions(data)
    /\ result' = 0
    /\ UNCHANGED <<data, data_on_entry, cell_i, cell_j, pass_result, passes,
                   calls, vars1, vars2, vars3, vars5>>

\* One turn of its while loop, cells_to_check iterated in some order.
DifferentialPass ==
    /\ pc4 = "differential_loop"
    /\ cells_to_check # {}
    /\ \E order \in OrdersToTry(cells_to_check) :
        \E after \in {DifferentialPassIn([data |-> data, at_positions |-> at_positions,
                                          cells_to_check |-> cells_to_check,
                                          result |-> result, done |-> FALSE], order)} :
            /\ pc4' = IF after.done THEN "differential_returned" ELSE "differential_loop"
            /\ data' = after.data
            /\ at_positions' = after.at_positions
            /\ cells_to_check' = after.cells_to_check
            /\ result' = after.result
    /\ passes' = passes + 1
    /\ UNCHANGED <<data_on_entry, cell_i, cell_j, pass_result, calls, vars1, vars2, vars3, vars5>>

\* cells_to_check is empty: the while loop ends and result is returned.
DifferentialReturn ==
    /\ pc4 = "differential_loop"
    /\ cells_to_check = {}
    /\ pc4' = "differential_returned"
    /\ UNCHANGED <<data, data_on_entry, cell_i, cell_j, result, pass_result, passes,
                   at_positions, cells_to_check, calls, vars1, vars2, vars3, vars5>>

NextPart2Variants ==
    \/ TrackingEnter
    \/ TrackingPass
    \/ DifferentialEnter
    \/ DifferentialPass
    \/ DifferentialReturn

SpecPart2Variants == InitPart2Variants /\ [][NextPart2Variants]_vars

\* C17: the value returned and the final grid of
\* solve_part2_tracking_at_cells and of solve_part2_differential do not
\* depend on the order in which at_positions and cells_to_check are
\* iterated: whatever the orders of the passes, they are those of the same
\* solver iterating by rows.
C17_Part2VariantsIgnoreIterationOrder ==
    /\ pc4 = "tracking_returned" =>
          [data |-> data, result |-> result] = solve_part2_tracking_at_cells(data_on_entry)
    /\ pc4 = "differential_returned" =>
          [data |-> data, result |-> result] = solve_part2_differential(data_on_entry)

\* solve_part2_differential has returned after three passes or more, from
\* a grid with more '@' cells than are iterated in every order, some of
\* them removed and some left.
C17_Witness ==
    /\ pc4 = "differential_returned"
    /\ passes >= 3
    /\ result >= 4
    /\ Cardinality(BuildAtPositions(data_on_entry)) > MaxPermuted
    /\ at_positions # {}

\* C19: on every rectangular grid solve_part2_tracking_at_cells and
\* solve_part2_differential return the count solve_part2 returns and leave
\* the grid solve_part2 leaves.
C19_Part2VariantsAgreeWithPart2 ==
    pc4 \in {"tracking_returned", "differential_returned"} =>
        [data |-> data, result |-> result] = solve_part2(data_on_entry)

\* solve_part2_tracking_at_cells has returned after four batches or more
\* with solve_part2's count, some '@' cells left.
C19_Witness ==
    /\ pc4 = "tracking_returned"
    /\ passes >= 4
    /\ result >= 3
    /\ at_positions # {}
    /\ solve_part2(data_on_entry).result = result

(***************************************************************************)
(* Day 5                                                                   *)
(***************************************************************************)

\* Range bounds and IDs are drawn from 0 .. MaxVal; an input has at most
\* MaxRanges range lines or at most MaxIds ID lines.
MaxVal == 2
MaxRanges == 3
MaxIds == 2

Vals == 0 .. MaxVal
RangePairs == Vals \X Vals

\* The example of the tests: the lines of setUp, in which an empty string
\* separates the ranges from the IDs, and what the test expects back.
test_data ==
    << <<"3", "-", "5">>, <<"1", "0", "-", "1", "4">>, <<"1", "6", "-", "2", "0">>,
       <<"1", "2", "-", "1", "8">>, <<>>, <<"1">>, <<"5">>, <<"8">>, <<"1", "1">>,
       <<"1", "7">>, <<"3", "2">> >>
expected_ranges == << <<3, 5>>, <<10, 20>> >>
expected_ids == <<1, 5, 8, 11, 17, 32>>

\* The example as parse_input hands it on: the blank line dropped.
test_data_without_blank == SubSeq(test_data, 1, 4) \o SubSeq(test_data, 6, 11)

\* The lines of an input: the range lines "start-end", an empty line when
\* there is a separator, the ID lines.
LinesOf(rs, separator, ids) ==
    [k \in 1 .. Len(rs) |-> str(rs[k][1]) \o <<"-">> \o str(rs[k][2])]
    \o (IF separator THEN << <<>> >> ELSE <<>>)
    \o [k \in 1 .. Len(ids) |-> str(ids[k])]

LinesToTry ==
    { LinesOf(rs, FALSE, <<1>>) : rs \in SeqsUpTo(RangePairs, MaxRanges) }
    \cup { LinesOf(rs, separator, ids) :
             rs \in SeqsUpTo(RangePairs, 1), separator \in BOOLEAN,
             ids \in SeqsUpTo(Vals, MaxIds) }
    \cup { test_data, test_data_without_blank }

\* The argument pairs of a direct call of solve_part1.
ArgumentsToTry ==
    (SeqsUpTo(RangePairs, 2) \X SeqsUpTo(Vals, MaxIds))
    \cup (SeqsUpTo(RangePairs, MaxRanges) \X SeqsUpTo(Vals, 1))
    \cup { <<expected_ranges, expected_ids>> }

\* The body of the loop over the lines: st holds ranges, ids_to_check,
\* blank_line_found, and raised once a line has raised ValueError.
ReadLine(st, line) ==
    IF st.raised THEN st
    ELSE IF ~st.blank_line_found
    THEN IF Contains(line, "-")
         THEN LET parts == split(line, "-")
              IN  IF Len(parts) = 2 /\ IntParses(parts[1]) /\ IntParses(parts[2])
                  THEN [st EXCEPT !.ranges = Append(@, <<int(parts[1]), int(parts[2])>>)]
                  ELSE [st EXCEPT !.raised = TRUE]
         ELSE IF IntParses(line)
              THEN [st EXCEPT !.blank_line_found = TRUE,
                              !.ids_to_check = Append(@, int(line))]
              ELSE [st EXCEPT !.blank_line_found = TRUE, !.raised = TRUE]
    ELSE IF IntParses(line)
         THEN [st EXCEPT !.ids_to_check = Append(@, int(line))]
         ELSE [st EXCEPT !.raised = TRUE]

\* The loop over the lines from the k-th on (nst is bound through a set so
\* that it is a value when the next line is read).
RECURSIVE ReadLines(_, _, _)
ReadLines(input, k, st) ==
    IF k > Len(input) THEN st
    ELSE Only({ ReadLines(input, k + 1, nst) : nst \in {ReadLine(st, input[k])} })

\* The order of tuples: by start, then by end.
TupleLE(a, b) == a[1] < b[1] \/ (a[1] = b[1] /\ a[2] <= b[2])

RECURSIVE Insert(_, _)
Insert(sorted, x) ==
    IF Len(sorted) = 0 THEN <<x>>
    ELSE IF TupleLE(x, Head(sorted)) THEN <<x>> \o sorted
    ELSE <<Head(sorted)>> \o Insert(Tail(sorted), x)

\* ranges.sort().
RECURSIVE sort(_)
sort(rs) ==
    IF Len(rs) = 0 THEN <<>>
    ELSE Insert(sort(SubSeq(rs, 1, Len(rs) - 1)), rs[Len(rs)])

Max(a, b) == IF a >= b THEN a ELSE b

\* A range is merged into the last one only when it starts before its end.
MergeStepStrict(merged_ranges, r) ==
    LET n == Len(merged_ranges)
    IN  IF n > 0 /\ r[1] < merged_ranges[n][2]
        THEN [merged_ranges EXCEPT ![n] = <<merged_ranges[n][1], Max(merged_ranges[n][2], r[2])>>]
        ELSE Append(merged_ranges, r)

\* The body of the merge loop for the range r = (start, end).
MergeStep(merged_ranges, r) ==
    LET n == Len(merged_ranges)
    IN  IF n > 0 /\ r[1] <= merged_ranges[n][2]
        THEN [merged_ranges EXCEPT ![n] = <<merged_ranges[n][1], Max(merged_ranges[n][2], r[2])>>]
        ELSE Append(merged_ranges, r)

RECURSIVE MergeLoop(_, _, _)
MergeLoop(sorted, k, merged_ranges) ==
    IF k > Len(sorted) THEN merged_ranges
    ELSE Only({ MergeLoop(sorted, k + 1, m) : m \in {MergeStep(merged_ranges, sorted[k])} })

\* preprocess_input(data): raised, or the merged ranges and the IDs.
preprocess_input(input) ==
    LET read == ReadLines(input, 1,
                    [ranges |-> <<>>, ids_to_check |-> <<>>,
                     blank_line_found |-> FALSE, raised |-> FALSE])
    IN  IF read.raised
        THEN [raised |-> TRUE, ranges |-> <<>>, ids_to_check |-> <<>>]
        ELSE [raised |-> FALSE,
              ranges |-> MergeLoop(sort(read.ranges), 1, <<>>),
              ids_to_check |-> read.ids_to_check]

\* The loop over the ranges with no break: one for every range that holds id.
RangeLoopNoBreak(rs, id, k) ==
    Cardinality({ m \in k .. Len(rs) : rs[m][1] <= id /\ id <= rs[m][2] })

\* The loop over the ranges reading each as start <= id < end.
RECURSIVE RangeLoopHalfOpen(_, _, _)
RangeLoopHalfOpen(rs, id, k) ==
    IF k > Len(rs) THEN 0
    ELSE IF rs[k][1] <= id /\ id < rs[k][2] THEN 1
    ELSE RangeLoopHalfOpen(rs, id, k + 1)

\* The loop over the ranges from the k-th on for one id: 1 at the first
\* range that holds it (the break), 0 when the ranges run out.
RECURSIVE RangeLoop(_, _, _)
RangeLoop(rs, id, k) ==
    IF k > Len(rs) THEN 0
    ELSE IF rs[k][1] <= id /\ id <= rs[k][2] THEN 1
    ELSE RangeLoop(rs, id, k + 1)

\* The loop over ids_to_check from the k-th on.
RECURSIVE IdLoop(_, _, _)
IdLoop(rs, ids, k) ==
    IF k > Len(ids) THEN 0
    ELSE RangeLoop(rs, ids[k], 1) + IdLoop(rs, ids, k + 1)

day5_solve_part1(rs, ids) == IdLoop(rs, ids, 1)

\* Either main's path, preprocess_input on the lines of a file and then
\* solve_part1 on what it returns, or a direct call of solve_part1.
InitDay5 ==
    /\ Day3Idle
    /\ Day1Idle
    /\ Day2Idle
    /\ Day4Idle
    /\ part1_result = 0
    /\ \/ /\ pc5 = "start"
          /\ lines \in LinesToTry
          /\ ranges = <<>>
          /\ ids_to_check = <<>>
       \/ /\ pc5 = "call_part1"
          /\ lines = <<>>
          /\ \E args \in ArgumentsToTry :
                /\ ranges = args[1]
                /\ ids_to_check = args[2]

PreprocessInput ==
    /\ pc5 = "start"
    /\ LET ret == preprocess_input(lines)
       IN  /\ pc5' = IF ret.raised THEN "raised_ValueError" ELSE "preprocessed"
           /\ ranges' = ret.ranges
           /\ ids_to_check' = ret.ids_to_check
    /\ UNCHANGED <<lines, part1_result, vars1, vars2, vars3, vars4>>

\* solve_part1(ranges, ids_to_check), as main calls it after
\* preprocess_input or called directly.
Day5SolvePart1 ==
    /\ pc5 \in {"preprocessed", "call_part1"}
    /\ part1_result' = day5_solve_part1(ranges, ids_to_check)
    /\ pc5' = "part1_returned"
    /\ UNCHANGED <<lines, ranges, ids_to_check, vars1, vars2, vars3, vars4>>

NextDay5 == PreprocessInput \/ Day5SolvePart1

SpecDay5 == InitDay5 /\ [][NextDay5]_vars

\* A line "start-end" and a line holding one ID, both in digits.
IsIdLine(line) == Len(line) > 0 /\ \A k \in 1 .. Len(line) : IsDigit(line[k])
IsRangeLine(line) ==
    /\ Contains(line, "-")
    /\ LET parts == split(line, "-")
       IN  Len(parts) = 2 /\ IsIdLine(parts[1]) /\ IsIdLine(parts[2])

\* Range lines, then an empty separator line at k, then ID lines: one line
\* at least of either kind.
SeparatorAt(input, k) ==
    /\ 1 < k
    /\ k < Len(input)
    /\ input[k] = <<>>
    /\ \A m \in 1 .. (k - 1) : IsRangeLine(input[m])
    /\ \A m \in (k + 1) .. Len(input) : IsIdLine(input[m])

\* C8: given range lines, then an empty-string separator line, then one ID
\* per line, preprocess_input raises nothing and returns the IDs in input
\* order; for the example data it returns [(3, 5), (10, 20)] and
\* [1, 5, 8, 11, 17, 32].
C8_SeparatedInputIsPreprocessed ==
    \A k \in 1 .. Len(lines) :
        (pc5 # "start" /\ SeparatorAt(lines, k)) =>
            /\ pc5 # "raised_ValueError"
            /\ ids_to_check = [m \in 1 .. (Len(lines) - k) |-> int(lines[k + m])]
            /\ (lines = test_data =>
                    ranges = expected_ranges /\ ids_to_check = expected_ids)

\* preprocess_input has returned its ranges (not raised).
Preprocessed == pc5 = "preprocessed"

\* Every range line of the input has start <= end.
InputRangesOrdered ==
    \A k \in 1 .. Len(lines) :
        Contains(lines[k], "-") =>
            LET parts == split(lines[k], "-")
            IN  int(parts[1]) <= int(parts[2])

\* C9 as stated: for every two consecutive returned ranges (s1, e1),
\* (s2, e2), s1 < s2 and e1 < s2; and if every input range has start <= end,
\* so has every returned range.
C9_MergedSortedAndDisjoint ==
    Preprocessed =>
        /\ \A k \in 1 .. (Len(ranges) - 1) :
              /\ ranges[k][1] < ranges[k + 1][1]
              /\ ranges[k][2] < ranges[k + 1][1]
        /\ (InputRangesOrdered =>
              \A k \in 1 .. Len(ranges) : ranges[k][1] <= ranges[k][2])

\* C9 as amended: for every two consecutive returned ranges s1 <= s2 and
\* e1 < s2; and if every input range has start <= end, then s1 < s2 for
\* every two consecutive returned ranges and every returned range has
\* start <= end.
C9_MergedSortedAndDisjointWhenOrdered ==
    Preprocessed =>
        /\ \A k \in 1 .. (Len(ranges) - 1) :
              /\ ranges[k][1] <= ranges[k + 1][1]
              /\ ranges[k][2] < ranges[k + 1][1]
        /\ (InputRangesOrdered =>
              /\ \A k \in 1 .. (Len(ranges) - 1) : ranges[k][1] < ranges[k + 1][1]
              /\ \A k \in 1 .. Len(ranges) : ranges[k][1] <= ranges[k][2])

\* Three input ranges with start <= end, two of them merged into one, two
\* ranges returned.
C9_Witness ==
    /\ Preprocessed
    /\ InputRangesOrdered
    /\ Cardinality({ k \in 1 .. Len(lines) : Contains(lines[k], "-") }) = 3
    /\ Len(ranges) = 2

\* The entries of ids_to_check that lie in at least one range.
IdsInSomeRange ==
    { k \in 1 .. Len(ids_to_check) :
        \E m \in 1 .. Len(ranges) :
            ranges[m][1] <= ids_to_check[k] /\ ids_to_check[k] <= ranges[m][2] }

\* C10: solve_part1 returns the number of entries of ids_to_check, counted
\* with multiplicity, that lie in at least one range start <= id <= end; an
\* ID in several ranges counts once, an ID in no range does not count, and
\* the example gives 3.
C10_Part1CountsIdsInRanges ==
    pc5 = "part1_returned" =>
        /\ part1_result = Cardinality(IdsInSomeRange)
        /\ ((ranges = expected_ranges /\ ids_to_check = expected_ids) => part1_result = 3)

\* The same ID twice, lying in two ranges, counts twice.
C10_Witness ==
    /\ pc5 = "part1_returned"
    /\ Len(ids_to_check) = 2
    /\ ids_to_check[1] = ids_to_check[2]
    /\ Cardinality({ m \in 1 .. Len(ranges) :
                       ranges[m][1] <= ids_to_check[1] /\ ids_to_check[1] <= ranges[m][2] }) = 2
    /\ part1_result = 2

\* The ranges solve_part1 is asked about: the range lines of the file as
\* written, before sorting and merging, or the ranges of a direct call.
RangeLines == { k \in 1 .. Len(lines) : Contains(lines[k], "-") }
RangesGiven ==
    IF lines = <<>> THEN { ranges[m] : m \in 1 .. Len(ranges) }
    ELSE { <<int(split(lines[k], "-")[1]), int(split(lines[k], "-")[2])>> : k \in RangeLines }

\* C11 as stated: every range is the half-open interval [start, end); the
\* count of solve_part1, after merging, is the number of entries of
\* ids_to_check with start <= id < end for some range, so an ID equal to a
\* range's end is not a member of that range.
C11_RangesAreHalfOpen ==
    pc5 = "part1_returned" =>
        part1_result =
            Cardinality({ k \in 1 .. Len(ids_to_check) :
                            \E r \in RangesGiven :
                                r[1] <= ids_to_check[k] /\ ids_to_check[k] < r[2] })

\* C11 as amended: every range is the closed interval [start, end]; the
\* count of solve_part1, after merging, is the number of entries of
\* ids_to_check with start <= id <= end for some range as written, so an ID
\* equal to the end of a range with start <= end is a member of that range;
\* the example, where 5 is the end of 3-5, gives 3.
C11_RangesAreClosed ==
    pc5 = "part1_returned" =>
        /\ part1_result =
              Cardinality({ k \in 1 .. Len(ids_to_check) :
                              \E r \in RangesGiven :
                                  r[1] <= ids_to_check[k] /\ ids_to_check[k] <= r[2] })
        /\ (lines = test_data_without_blank => part1_result = 3)

\* A file whose range lines were merged into one range with start < end,
\* and an ID equal to that end, which is counted.
C11_Witness ==
    /\ pc5 = "part1_returned"
    /\ Cardinality(RangeLines) >= 2
    /\ Len(ranges) = 1
    /\ ranges[1][1] < ranges[1][2]
    /\ ids_to_check = <<ranges[1][2]>>
    /\ part1_result = 1

Init == InitDay1
Next == NextDay1
Spec == Init /\ [][Next]_vars
====
